---- MODULE Spec2Model ----
(***************************************************************************)
(* A model of go-ytdlp: the flag list of the command builder, the command  *)
(* orchestrator (BuildCommand / Run / wrapError), the yt-dlp installer and *)
(* the timestamped stream writers.  Each subsystem has its own next-state  *)
(* relation and specification over the shared state.                       *)
(***************************************************************************)
EXTENDS Integers, Sequences, FiniteSets, TLC

VARIABLES
    \* ---- flag list of the builder (command_windows.go, second file) ----
    flags,        \* c.flags: the active flags, in insertion order
    flagsBefore,  \* c.flags as it was when the last builder call started
    lastFlagOp,   \* the last builder call: [op, id]
    panicked      \* the last builder call ended in a runtime panic

flagVars == <<flags, flagsBefore, lastFlagOp, panicked>>

VARIABLES
    \* ---- the yt-dlp installer (install_ytdlp.go, install.go) ----
    ytdlpResolveCache,  \* the process-wide cache cell (NoInstall = nil)
    bunResolveCache,    \* the cache cell of the bun installer
    ytdlpInstallLock,   \* the goroutine holding the install lock, or NoProc
    cacheDir,           \* the files of the go-ytdlp cache directory
    sysBin,             \* the yt-dlp found on the system PATH, if any
    pc,                 \* each caller's position inside Install
    opts,               \* each caller's InstallOptions
    ret,                \* what each caller's last Install call returned
    nextPtr,            \* the number of ResolvedInstall values published so far
    calls,              \* the number of Install calls made so far
    rmPc,               \* the position of the RemoveInstallCache caller
    clears,             \* the number of RemoveInstallCache calls made so far
    \* history of the current call of each caller
    renamed,            \* the call renamed the temporary artifact to its final name
    stored,             \* the call wrote the cache cell
    downloaded,         \* the call requested the artifact download
    \* history of the installer as a whole
    installedByDownload, \* a call that downloaded has stored the cell since the last clear
    redundantDownload    \* a download was requested although installedByDownload held

installVars == <<ytdlpResolveCache, bunResolveCache, ytdlpInstallLock, cacheDir,
                 sysBin, pc, opts,
                 ret, nextPtr, calls, rmPc, clears, renamed, stored,
                 downloaded, installedByDownload, redundantDownload>>

VARIABLES
    \* ---- the command orchestrator (command.go, progress.go) ----
    exists,               \* which Command objects have been created
    executable,           \* Command.executable
    directory,            \* Command.directory
    env,                  \* Command.env, a set of <<key, value>> pairs
    flagConfig,           \* the value of *Command.flagConfig
    disableEnvVarInherit, \* Command.disableEnvVarInherit
    cancelMaxWait,        \* Command.cancelMaxWait, in seconds
    progress,             \* Command.progress: a handler address, 0 = nil
    handlers,             \* the heap of progressHandler objects
    nextHandler,          \* the number of handlers allocated so far
    userCacheDirOK,       \* os.UserCacheDir succeeds ($HOME or $XDG_CACHE_HOME set)
    cmdClock,             \* time.Now as seen by the progress handlers
    lastCmd,              \* the *exec.Cmd the last BuildCommand returned
    lastRun,              \* what the last Run did and returned
    lastOp,               \* the last operation and the Command it was called on
    before,               \* that Command's settings before the operation
    cmdOps                \* the number of operations made so far

cmdVars == <<exists, executable, directory, env, flagConfig, disableEnvVarInherit,
             cancelMaxWait, progress, handlers, nextHandler, userCacheDirOK,
             cmdClock, lastCmd, lastRun, lastOp, before, cmdOps>>

VARIABLES
    \* ---- the stream writers (results.go) ----
    clock,     \* time.Now
    writers,   \* the stdout and stderr timestampWriter: buf, lastWriteStart, results
    merged,    \* what the last mergeResults returned
    receiver,  \* the writer mergeResults was called on, "none" before the call
    writes     \* the number of Write calls made so far

logVars == <<clock, writers, merged, receiver, writes>>

VARIABLES
    \* ---- the progress decoder (progress.go) ----
    pclock,     \* time.Now
    phandler,   \* the progressHandler: its started and finished maps
    pcalled,    \* whether the last parse invoked the callback
    pupdate,    \* the update the callback received last
    pkey,       \* the download key of that update
    pbefore,    \* the handler before the last parse
    pfields,    \* the number of delimited fields of the last line parsed
    pfirst,     \* history: per key, the time of its first delivered update
    pfirstFin,  \* history: per key, the time of its first terminal update
    parses      \* the number of parse calls made so far

progVars == <<pclock, phandler, pcalled, pupdate, pkey, pbefore, pfields, pfirst,
              pfirstFin, parses>>

VARIABLES
    \* ---- one invocation and its subprocess (command.go, os/exec) ----
    rstate,     \* "idle", "running" (inside cmd.Run) or "returned"
    rby,        \* the Command that is run
    rWaitDelay, \* cmd.WaitDelay
    rtime,      \* the time, in seconds
    rcancelAt,  \* when the context was cancelled, 0 while it is not
    rproc,      \* the yt-dlp process: "none", "alive" or "exited"
    rchild,     \* whether a child of yt-dlp (ffmpeg) holds the output pipes
    rpipes,     \* "open" until every writer of the output pipes is gone
    rtimer,     \* when the WaitDelay timer was started, 0 while it is not
    rerr        \* the error of cmd.Run

runVars == <<rstate, rby, rWaitDelay, rtime, rcancelAt, rproc, rchild, rpipes,
             rtimer, rerr>>

VARIABLES
    \* ---- the template encoder (template/encode.go) ----
    tin,    \* the value last given to MarshalTemplate
    tout    \* what MarshalTemplate did with it

tmplVars == <<tin, tout>>

VARIABLES
    \* ---- goroutines sharing one Command (Command.mu) ----
    lpc,    \* per goroutine: the method it is in and the step it is at
    mu,     \* the Command's RWMutex: its writer (0: none) and its readers
    lacc    \* the last access to a field of the Command

lockVars == <<lpc, mu, lacc>>

VARIABLES
    \* ---- one timestampWriter and the byte stream written to it ----
    tw,         \* the writer
    twWrite,    \* which Write the build has: "recursive" (results.go) or "once"
    twBytes,    \* history: all bytes written so far, concatenated
    twN,        \* what the last Write returned as n
    twLen,      \* len(p) of the last Write
    twFlushed   \* whether String() has flushed the writer

streamVars == <<tw, twWrite, twBytes, twN, twLen, twFlushed>>

VARIABLES
    \* ---- InstallFFmpeg and InstallFFprobe fetching one release archive ----
    apc,        \* per tool: where its installer is
    served,     \* <<the members of the archive the download URL serves>>
    arch,       \* the archive file in the cache directory
    extracted,  \* the binaries extracted into the cache directory
    xerr,       \* per tool: whether its extraction returned an error
    ares,       \* per tool: what its Install call returned
    acell,      \* per tool: the Executable its cache cell holds ("" for nil)
    clobbered,  \* history: the archive was truncated or removed under the other tool
    denoResolveCache,   \* the Executable deno's cache cell holds ("" for nil)
    cacheDirExists,     \* whether the cache directory exists
    deleted     \* history: binaries RemoveInstallCache deleted, not extracted since

archVars ==
    <<apc, served, arch, extracted, xerr, ares, acell, clobbered, denoResolveCache,
      cacheDirExists, deleted>>

vars ==
    <<flagVars, installVars, cmdVars, logVars, progVars, runVars, tmplVars, lockVars,
      streamVars, archVars>>

(***************************************************************************)
(* Bounds                                                                  *)
(***************************************************************************)
MaxFlags == 4
MaxInstallCalls == 2
MaxClears == 1
MaxCmdOps == 3
MaxHandlers == 2
MaxWrites == 3
MaxClock == 2
MaxParses == 3
MaxProgressClock == 4
MaxRunClock == 4
MaxFields == 2
MaxChunk == 3
MaxStream == 4

(***************************************************************************)
(* Generic helpers                                                         *)
(***************************************************************************)
RECURSIVE FilterSeq(_, _)
\* the entries of s whose ID is not id, in their original order
FilterSeq(s, id) ==
    IF s = <<>> THEN <<>>
    ELSE IF Head(s).ID = id THEN FilterSeq(Tail(s), id)
         ELSE <<Head(s)>> \o FilterSeq(Tail(s), id)

CountID(s, id) == Cardinality({i \in 1..Len(s) : s[i].ID = id})

(***************************************************************************)
(* Flags                                                                   *)
(***************************************************************************)
\* A Flag: ID, the literal token, Args (NilArgs = TRUE is a nil Args slice,
\* i.e. a boolean switch) and whether the option may be repeated.
Flag(id, tok, nilArgs, args, multi) ==
    [ID |-> id, Flag |-> tok, NilArgs |-> nilArgs, Args |-> args,
     AllowsMultiple |-> multi]

\* The flags the generated builder methods produce (a sample of them).
BuilderFlags ==
    { Flag("noprogress", "--progress", TRUE, <<>>, FALSE),
      Flag("noprogress", "--no-progress", TRUE, <<>>, FALSE),
      Flag("playliststart", "--playlist-start", FALSE, <<"1">>, FALSE),
      Flag("playliststart", "--playlist-start", FALSE, <<"2">>, FALSE),
      Flag("forceprint", "--print", FALSE, <<"t1">>, TRUE),
      Flag("forceprint", "--print", FALSE, <<"t2">>, TRUE) }

FlagIDs == {f.ID : f \in BuilderFlags}

\* Flag.Raw: the token followed by its arguments.
Raw(f) == IF f.NilArgs THEN <<f.Flag>> ELSE <<f.Flag>> \o f.Args

\* Flags.Duplicates: the non-repeatable flags whose ID occurs more than once.
Duplicates(fs) ==
    SelectSeq(fs, LAMBDA f : ~f.AllowsMultiple
                             /\ Cardinality({i \in 1..Len(fs) :
                                    ~fs[i].AllowsMultiple /\ fs[i].ID = f.ID}) > 1)

\* The position of the first flag with f's ID, 0 when there is none.
FirstWithID(fs, id) ==
    IF \E i \in 1..Len(fs) : fs[i].ID = id
    THEN CHOOSE i \in 1..Len(fs) :
            fs[i].ID = id /\ \A j \in 1..(i - 1) : fs[j].ID # id
    ELSE 0

\* Command.addFlag: a boolean flag (nil Args) overwrites the first entry with
\* its ID; every other flag is appended.
AddFlagResultAlwaysReplace(fs, f) ==
    IF FirstWithID(fs, f.ID) # 0
    THEN [fs EXCEPT ![FirstWithID(fs, f.ID)] = f]
    ELSE Append(fs, f)

AddFlagResult(fs, f) ==
    IF f.NilArgs /\ FirstWithID(fs, f.ID) # 0
    THEN [fs EXCEPT ![FirstWithID(fs, f.ID)] = f]
    ELSE Append(fs, f)

\* The loop of Command.removeFlagByID.  The range expression is evaluated
\* once: the loop runs over the n entries of the original slice header and
\* reads them from the backing array arr, which the appends inside the loop
\* shift in place; len is the current length of c.flags.  Removing at index
\* i (1-based) evaluates c.flags[i:] on the current slice, which panics when
\* i exceeds its length.
RECURSIVE RemoveLoop(_, _, _, _, _)
RemoveLoop(arr, len, i, n, id) ==
    IF i > n THEN [flags |-> SubSeq(arr, 1, len), panic |-> FALSE]
    ELSE IF arr[i].ID # id THEN RemoveLoop(arr, len, i + 1, n, id)
    ELSE IF i > len THEN [flags |-> SubSeq(arr, 1, len), panic |-> TRUE]
    ELSE RemoveLoop(
            [k \in 1..Len(arr) |->
                IF k >= i /\ k < len THEN arr[k + 1] ELSE arr[k]],
            len - 1, i + 1, n, id)

RemoveFlagResult(fs, id) == RemoveLoop(fs, Len(fs), 1, Len(fs), id)

\* A panic unwinds the caller: no further builder call follows it.
AddFlag(f) ==
    /\ ~panicked
    /\ Len(flags) < MaxFlags
    /\ flagsBefore' = flags
    /\ flags' = AddFlagResult(flags, f)
    /\ lastFlagOp' = [op |-> "add", id |-> f.ID]
    /\ panicked' = FALSE

RemoveFlagByID(id) ==
    /\ ~panicked
    /\ flagsBefore' = flags
    /\ flags' = RemoveFlagResult(flags, id).flags
    /\ panicked' = RemoveFlagResult(flags, id).panic
    /\ lastFlagOp' = [op |-> "remove", id |-> id]

\* The argument loop of buildCommand: the raw tokens of the flags in list
\* order, then the positional arguments.
RECURSIVE FlagArgs(_)
FlagArgs(fs) == IF fs = <<>> THEN <<>> ELSE Raw(Head(fs)) \o FlagArgs(Tail(fs))

CmdArgs(fs, args) == FlagArgs(fs) \o args

InitFlags ==
    /\ flags = <<>>
    /\ flagsBefore = <<>>
    /\ lastFlagOp = [op |-> "new", id |-> ""]
    /\ panicked = FALSE

NextFlags ==
    \/ \E f \in BuilderFlags : AddFlag(f)
    \/ \E id \in FlagIDs : RemoveFlagByID(id)

(***************************************************************************)
(* Installer                                                               *)
(***************************************************************************)
Procs == {"g1", "g2"}
NoProc == "none"

\* The version the library was built against, and some other version.
Version == "V"
OtherVersion == "O"

\* ytdlpBinConfigs["linux_amd64"]: the release asset and the destination names.
BinSrc == "yt-dlp_linux"
BinDest == <<"yt-dlp-V", "yt-dlp">>
TmpName == "yt-dlp-V.tmp"
SumsName == "SHA2-256SUMS-V"
SigName == "SHA2-256SUMS-V.sig"
FileNames == {BinDest[1], BinDest[2], TmpName, SumsName, SigName}

NoFile == [kind |-> "none"]
\* An executable file: its content hash and the version it reports.
BinFile(h, v) == [kind |-> "bin", hash |-> h, ver |-> v]
\* A checksum manifest: its lines, each a sequence of whitespace-separated fields.
SumsFile(ls) == [kind |-> "sums", lines |-> ls]
\* A detached signature, valid or not for the manifest under the embedded key.
SigFile(ok) == [kind |-> "sig", valid |-> ok]

\* What the download server may serve.
\* The served artifact: the release asset of Version (hash h1), or, from a
\* mirror, a tampered server or InstallOptions.DownloadURL, another file,
\* which may be a build of another version.
Artifacts == {BinFile("h1", Version), BinFile("h2", Version),
              BinFile("h2", OtherVersion)}
Manifests ==
    { SumsFile(<< <<"h1", "yt-dlp_macos">> >>),
      SumsFile(<< <<"h2", BinSrc, "x">>, <<"h1", BinSrc>> >>),
      SumsFile(<< <<"h2", BinSrc>>, <<"h1", BinSrc>> >>) }
Signatures == {SigFile(TRUE), SigFile(FALSE)}

\* What may be installed on the system PATH: nothing, a yt-dlp of either
\* version, or a file that cannot be run.
SysBins == {NoFile, BinFile("s", Version), BinFile("s", OtherVersion),
            BinFile("s", "unrunnable")}

InstallOptions(dd, dc, ds, avm) ==
    [DisableDownload |-> dd, DisableChecksum |-> dc, DisableSystem |-> ds,
     AllowVersionMismatch |-> avm]

\* The option sets the callers use: the defaults, each switch on its own, and
\* AllowVersionMismatch together with DisableDownload.
InstallOptionSets ==
    { InstallOptions(FALSE, FALSE, FALSE, FALSE),
      InstallOptions(TRUE, FALSE, FALSE, FALSE),
      InstallOptions(FALSE, TRUE, FALSE, FALSE),
      InstallOptions(FALSE, FALSE, TRUE, FALSE),
      InstallOptions(FALSE, FALSE, FALSE, TRUE),
      InstallOptions(TRUE, FALSE, FALSE, TRUE) }

NoInstall ==
    [ptr |-> 0, Executable |-> "", Version |-> "", FromCache |-> FALSE,
     Downloaded |-> FALSE]

NoReturn == [kind |-> "none", val |-> NoInstall, err |-> ""]

\* isExecutable (unix): a regular file with an execute bit; downloadFile
\* creates every file of the cache directory with mode 0700.
IsExecutable(f) == f.kind # "none"

\* resolveExecutable: the cache directory first, each name of binaries in
\* order, then (unless disabled) the system PATH.  Version is only stamped
\* when the callee has just downloaded.
ResolveExecutable(dir, sys, calleeIsDownloader, disableSystem) ==
    IF \E i \in 1..Len(BinDest) : IsExecutable(dir[BinDest[i]])
    THEN LET i == CHOOSE k \in 1..Len(BinDest) :
                    /\ IsExecutable(dir[BinDest[k]])
                    /\ \A j \in 1..(k - 1) : ~IsExecutable(dir[BinDest[j]])
         IN [found |-> TRUE, Executable |-> BinDest[i], FromCache |-> TRUE,
             Downloaded |-> calleeIsDownloader,
             Version |-> IF calleeIsDownloader THEN Version ELSE "",
             file |-> dir[BinDest[i]]]
    ELSE IF ~disableSystem /\ sys # NoFile
    THEN [found |-> TRUE, Executable |-> "/usr/bin/yt-dlp", FromCache |-> FALSE,
          Downloaded |-> FALSE, Version |-> "", file |-> sys]
    ELSE [found |-> FALSE, Executable |-> "", FromCache |-> FALSE,
          Downloaded |-> FALSE, Version |-> "", file |-> NoFile]

\* ytdlpGetVersion: run the executable with --version; "" when it cannot run.
YtdlpGetVersion(file) ==
    IF file.kind = "bin" /\ file.ver \in {Version, OtherVersion} THEN file.ver ELSE ""

\* The scan of verifyFileChecksum over the manifest lines: lines that do not
\* have exactly two fields are skipped, the first line naming checkAgainst
\* decides.
RECURSIVE ScanManifest(_, _, _)
ScanManifest(lines, sum, checkAgainst) ==
    IF lines = <<>> THEN "notfound"
    ELSE IF Len(Head(lines)) # 2 THEN ScanManifest(Tail(lines), sum, checkAgainst)
    ELSE IF Head(lines)[2] = checkAgainst
         THEN (IF Head(lines)[1] # sum THEN "mismatch" ELSE "ok")
         ELSE ScanManifest(Tail(lines), sum, checkAgainst)

\* A verifyFileChecksum that trusts the manifest without checking its
\* signature.
VerifyWithoutSignature(sums, sig, target, checkAgainst) ==
    IF sig.kind # "sig" \/ sums.kind # "sums" \/ target.kind # "bin" THEN "open"
    ELSE ScanManifest(sums.lines, target.hash, checkAgainst)

\* verifyFileChecksum: every file must open, the manifest's detached signature
\* must verify under the embedded key, and the target's hash must be the
\* manifest's entry for checkAgainst.
VerifyFileChecksum(sums, sig, target, checkAgainst) ==
    IF sig.kind # "sig" \/ sums.kind # "sums" \/ target.kind # "bin" THEN "open"
    ELSE IF ~sig.valid THEN "signature"
    ELSE ScanManifest(sums.lines, target.hash, checkAgainst)

ResolvedInstall(r, p, v) ==
    [ptr |-> p, Executable |-> r.Executable, Version |-> v,
     FromCache |-> r.FromCache, Downloaded |-> r.Downloaded]

\* Leaving Install: the deferred Unlock runs when the lock was taken.
Return(g, kind, val, err) ==
    /\ pc' = [pc EXCEPT ![g] = "done"]
    /\ ret' = [ret EXCEPT ![g] = [kind |-> kind, val |-> val, err |-> err]]
    /\ ytdlpInstallLock' =
            IF ytdlpInstallLock = g THEN NoProc ELSE ytdlpInstallLock

\* ytdlpResolveCache.Store(r) followed by return r, nil.
StoreAndReturn(g, r) ==
    /\ ytdlpResolveCache' = r
    /\ nextPtr' = nextPtr + 1
    /\ stored' = [stored EXCEPT ![g] = TRUE]
    /\ installedByDownload' = (installedByDownload \/ downloaded[g])
    /\ Return(g, "ok", r, "")

\* A call of Install up to its first shared access: the lock-free check of
\* the cache cell.
Install(g, o) ==
    /\ pc[g] \in {"idle", "done"}
    /\ calls < MaxInstallCalls
    /\ calls' = calls + 1
    /\ opts' = [opts EXCEPT ![g] = o]
    /\ renamed' = [renamed EXCEPT ![g] = FALSE]
    /\ stored' = [stored EXCEPT ![g] = FALSE]
    /\ downloaded' = [downloaded EXCEPT ![g] = FALSE]
    /\ IF ytdlpResolveCache # NoInstall
       THEN Return(g, "ok", ytdlpResolveCache, "")
       ELSE /\ pc' = [pc EXCEPT ![g] = "lock"]
            /\ ret' = [ret EXCEPT ![g] = NoReturn]
            /\ UNCHANGED ytdlpInstallLock
    /\ UNCHANGED <<ytdlpResolveCache, cacheDir, sysBin, bunResolveCache, nextPtr, rmPc,
                   clears, installedByDownload, redundantDownload>>

\* ytdlpInstallLock.Lock()
Acquire(g) ==
    /\ pc[g] = "lock"
    /\ ytdlpInstallLock = NoProc
    /\ ytdlpInstallLock' = g
    /\ pc' = [pc EXCEPT ![g] = "resolve"]
    /\ UNCHANGED <<ytdlpResolveCache, cacheDir, sysBin, bunResolveCache, opts, ret,
                   nextPtr, calls, rmPc, clears, renamed, stored, downloaded,
                   installedByDownload, redundantDownload>>

\* An Install that forgets DisableDownload when nothing was resolved.
DecideIgnoringDisableDownload(o, found, v) ==
    IF found /\ v = "" THEN "unrunnable"
    ELSE IF found /\ (o.AllowVersionMismatch \/ v = Version) THEN "store"
    ELSE IF found /\ o.DisableDownload THEN "mismatch"
    ELSE "download"

\* What Install does with the outcome of its first resolveExecutable, for
\* options o: found is err == nil, v the version of the resolved executable
\* ("" when ytdlpGetVersion fails).
Decide(o, found, v) ==
    IF found /\ v = "" THEN "unrunnable"
    ELSE IF found /\ (o.AllowVersionMismatch \/ v = Version) THEN "store"
    ELSE IF found /\ o.DisableDownload THEN "mismatch"
    ELSE IF o.DisableDownload THEN "notfound"
    ELSE "download"

\* The first resolveExecutable of Install and the decisions that follow it.
Resolve(g) ==
    /\ pc[g] = "resolve"
    /\ LET r == ResolveExecutable(cacheDir, sysBin, FALSE, opts[g].DisableSystem)
           v == YtdlpGetVersion(r.file)
           ri == ResolvedInstall(r, nextPtr + 1, v)
           d == Decide(opts[g], r.found, v)
       IN /\ IF d = "unrunnable"
             THEN /\ Return(g, "err", NoInstall, "unable to run yt-dlp to verify version")
                  /\ UNCHANGED <<ytdlpResolveCache, nextPtr, stored,
                                 installedByDownload>>
             ELSE IF d = "store"
             THEN StoreAndReturn(g, ri)
             ELSE IF d = "mismatch"
             THEN /\ Return(g, "err", NoInstall, "yt-dlp version mismatch")
                  /\ UNCHANGED <<ytdlpResolveCache, nextPtr, stored,
                                 installedByDownload>>
             ELSE IF d = "notfound"
             THEN /\ Return(g, "err", NoInstall,
                            "yt-dlp executable not found, and downloading is disabled")
                  /\ UNCHANGED <<ytdlpResolveCache, nextPtr, stored,
                                 installedByDownload>>
             ELSE /\ pc' = [pc EXCEPT ![g] = "download"]
                  /\ UNCHANGED <<ret, ytdlpInstallLock, ytdlpResolveCache, nextPtr,
                                 stored, installedByDownload>>
    /\ UNCHANGED <<cacheDir, sysBin, bunResolveCache, opts, calls, rmPc, clears,
                   renamed, downloaded, redundantDownload>>

\* downloadFile of the release asset into dest[0] + ".tmp": the request may
\* fail, otherwise the file holds whatever the server sent.
DownloadArtifact(g) ==
    /\ pc[g] = "download"
    /\ downloaded' = [downloaded EXCEPT ![g] = TRUE]
    /\ redundantDownload' = (redundantDownload \/ installedByDownload)
    /\ \/ /\ Return(g, "err", NoInstall, "unable to download go-ytdlp dependent file")
          /\ UNCHANGED cacheDir
       \/ \E a \in Artifacts :
            /\ cacheDir' = [cacheDir EXCEPT ![TmpName] = a]
            /\ pc' = [pc EXCEPT ![g] =
                        IF opts[g].DisableChecksum THEN "rename" ELSE "sums"]
            /\ UNCHANGED <<ret, ytdlpInstallLock>>
    /\ UNCHANGED <<ytdlpResolveCache, sysBin, bunResolveCache, opts, nextPtr, calls,
                   rmPc, clears, renamed, stored, installedByDownload>>

\* downloadFile of SHA2-256SUMS, then of SHA2-256SUMS.sig; either request may
\* fail, and a failure of the second leaves the first file behind.
DownloadChecksums(g) ==
    /\ pc[g] = "sums"
    /\ \/ /\ Return(g, "err", NoInstall, "unable to download go-ytdlp dependent file")
          /\ UNCHANGED cacheDir
       \/ \E m \in Manifests :
            /\ cacheDir' = [cacheDir EXCEPT ![SumsName] = m]
            /\ Return(g, "err", NoInstall, "unable to download go-ytdlp dependent file")
       \/ \E m \in Manifests, sg \in Signatures :
            /\ cacheDir' = [cacheDir EXCEPT ![SumsName] = m, ![SigName] = sg]
            /\ pc' = [pc EXCEPT ![g] = "verify"]
            /\ UNCHANGED <<ret, ytdlpInstallLock>>
    /\ UNCHANGED <<ytdlpResolveCache, sysBin, bunResolveCache, opts, nextPtr, calls,
                   rmPc, clears, renamed, stored, downloaded, installedByDownload,
                   redundantDownload>>

\* verifyFileChecksum(sums, sig, tmp, src); any error leaves Install.
Verify(g) ==
    /\ pc[g] = "verify"
    /\ LET res == VerifyFileChecksum(cacheDir[SumsName], cacheDir[SigName],
                                     cacheDir[TmpName], BinSrc)
       IN IF res = "ok"
          THEN /\ pc' = [pc EXCEPT ![g] = "rename"]
               /\ UNCHANGED <<ret, ytdlpInstallLock>>
          ELSE Return(g, "err", NoInstall, res)
    /\ UNCHANGED <<ytdlpResolveCache, cacheDir, sysBin, bunResolveCache, opts, nextPtr,
                   calls, rmPc, clears, renamed, stored, downloaded,
                   installedByDownload, redundantDownload>>

\* os.Rename(dest[0] + ".tmp", dest[0])
Rename(g) ==
    /\ pc[g] = "rename"
    /\ IF cacheDir[TmpName] = NoFile
       THEN /\ Return(g, "err", NoInstall, "unable to rename yt-dlp executable")
            /\ UNCHANGED <<cacheDir, renamed>>
       ELSE /\ cacheDir' = [cacheDir EXCEPT ![BinDest[1]] = cacheDir[TmpName],
                                            ![TmpName] = NoFile]
            /\ renamed' = [renamed EXCEPT ![g] = TRUE]
            /\ pc' = [pc EXCEPT ![g] = "reresolve"]
            /\ UNCHANGED <<ret, ytdlpInstallLock>>
    /\ UNCHANGED <<ytdlpResolveCache, sysBin, bunResolveCache, opts, nextPtr, calls,
                   rmPc, clears, stored, downloaded, installedByDownload,
                   redundantDownload>>

\* The second resolveExecutable (calleeIsDownloader), the version query when
\* the version was not stamped, and the store.
ReResolve(g) ==
    /\ pc[g] = "reresolve"
    /\ LET r == ResolveExecutable(cacheDir, sysBin, TRUE, opts[g].DisableSystem)
           v == IF r.Version = "" THEN YtdlpGetVersion(r.file) ELSE r.Version
           ri == ResolvedInstall(r, nextPtr + 1, v)
       IN /\ IF ~r.found
             THEN /\ Return(g, "err", NoInstall, "unable to resolve executable")
                  /\ UNCHANGED <<ytdlpResolveCache, nextPtr, stored,
                                 installedByDownload>>
             ELSE IF v = ""
             THEN /\ Return(g, "err", NoInstall, "unable to run yt-dlp to verify version")
                  /\ UNCHANGED <<ytdlpResolveCache, nextPtr, stored,
                                 installedByDownload>>
             ELSE StoreAndReturn(g, ri)
    /\ UNCHANGED <<cacheDir, sysBin, bunResolveCache, opts, calls, rmPc, clears,
                   renamed, downloaded, redundantDownload>>

\* RemoveInstallCache, first half: os.RemoveAll(cacheDir)
RemoveAll ==
    /\ rmPc = "idle"
    /\ clears < MaxClears
    /\ clears' = clears + 1
    /\ cacheDir' = [n \in FileNames |-> NoFile]
    /\ installedByDownload' = FALSE
    /\ rmPc' = "cells"
    /\ UNCHANGED <<ytdlpResolveCache, ytdlpInstallLock, sysBin, bunResolveCache, pc,
                   opts, ret, nextPtr, calls, renamed, stored, downloaded,
                   redundantDownload>>

\* RemoveInstallCache, second half: every tool's cell is cleared
ClearCells ==
    /\ rmPc = "cells"
    /\ ytdlpResolveCache' = NoInstall
    /\ bunResolveCache' = NoInstall
    /\ installedByDownload' = FALSE
    /\ rmPc' = "idle"
    /\ UNCHANGED <<ytdlpInstallLock, cacheDir, sysBin, pc, opts, ret, nextPtr, calls,
                   clears, renamed, stored, downloaded, redundantDownload>>

InitInstall ==
    /\ ytdlpResolveCache = NoInstall
    /\ bunResolveCache = NoInstall
    /\ ytdlpInstallLock = NoProc
    /\ cacheDir = [n \in FileNames |-> NoFile]
    /\ sysBin \in SysBins
    /\ pc = [g \in Procs |-> "idle"]
    /\ opts = [g \in Procs |-> InstallOptions(FALSE, FALSE, FALSE, FALSE)]
    /\ ret = [g \in Procs |-> NoReturn]
    /\ nextPtr = 0
    /\ calls = 0
    /\ rmPc = "idle"
    /\ clears = 0
    /\ renamed = [g \in Procs |-> FALSE]
    /\ stored = [g \in Procs |-> FALSE]
    /\ downloaded = [g \in Procs |-> FALSE]
    /\ installedByDownload = FALSE
    /\ redundantDownload = FALSE

NextInstall ==
    \/ \E g \in Procs, o \in InstallOptionSets : Install(g, o)
    \/ \E g \in Procs : Acquire(g)
    \/ \E g \in Procs : Resolve(g)
    \/ \E g \in Procs : DownloadArtifact(g)
    \/ \E g \in Procs : DownloadChecksums(g)
    \/ \E g \in Procs : Verify(g)
    \/ \E g \in Procs : Rename(g)
    \/ \E g \in Procs : ReResolve(g)
    \/ RemoveAll
    \/ ClearCells

(***************************************************************************)
(* Command orchestrator                                                    *)
(***************************************************************************)
CmdIds == {"a", "b"}

\* New(): cancelMaxWait is one second.
DefaultCancelMaxWait == 1

\* The executables callers set: none, a bare name looked up on PATH, an
\* absolute path of a yt-dlp that runs, an absolute path of no file.
ExecNames == {"", "yt-dlp", "/opt/yt-dlp", "/nonexistent/yt-dlp"}
BareNames == {"yt-dlp"}

\* The parent process environment and the cache directory of GetCacheDir.
ParentEnv == {<<"PATH", <<"/usr/bin", "/bin">> >>, <<"LANG", <<"C">> >>}
CacheDirPath == "/home/u/.cache/go-ytdlp"
EnvInputs == {<<"PATH", <<"/custom", "/bin">> >>, <<"PATH", <<>> >>,
              <<"LANG", <<"en">> >>}

\* The fields of FlagConfig the orchestrator reads or writes: the JS runtime
\* settings of General, and the progress flags ProgressFunc switches on.
NewFlagConfig == [JsRuntimes |-> <<>>, NoJsRuntimes |-> "nil", Progress |-> "nil"]
FlagConfigs ==
    { NewFlagConfig,
      [NewFlagConfig EXCEPT !.JsRuntimes = <<"deno">>],
      [NewFlagConfig EXCEPT !.NoJsRuntimes = "true"] }

\* FlagConfig.ToFlags followed by Flag.Raw: the tokens of the flags that are set.
ToFlags(fc) ==
    (IF fc.NoJsRuntimes = "true" THEN <<"--no-js-runtimes">> ELSE <<>>)
    \o (IF Len(fc.JsRuntimes) > 0 THEN <<"--js-runtimes">> \o fc.JsRuntimes ELSE <<>>)
    \o (IF fc.Progress = "true" THEN <<"--progress", "--newline">> ELSE <<>>)

PositionalArgs == {<<"https://example.com/v">>}

\* Progress updates a yt-dlp process may print: the download key and status.
Uuids == {"u1"}
UpdateSeqs ==
    { <<>>,
      << [uuid |-> "u1", Status |-> "downloading"] >>,
      << [uuid |-> "u1", Status |-> "downloading"],
         [uuid |-> "u1", Status |-> "finished"] >> }

IsCompletedType(st) == st \in {"error", "finished"}

NewProgressHandler == [started |-> [u \in Uuids |-> 0], finished |-> [u \in Uuids |-> 0]]

\* A parse that stamps the finish time at every terminal update, not only at
\* the first one of its key.
ParseOneRestamping(h, up, now) ==
    LET st == IF h.started[up.uuid] = 0 THEN now ELSE h.started[up.uuid]
        fin == IF IsCompletedType(up.Status) THEN now ELSE h.finished[up.uuid]
    IN [h |-> [started |-> [h.started EXCEPT ![up.uuid] = st],
               finished |-> [h.finished EXCEPT ![up.uuid] = fin]],
        update |-> [uuid |-> up.uuid, Status |-> up.Status, Started |-> st,
                    Finished |-> fin]]

\* progressHandler.parse for one well-formed update at time now: the handler
\* after it, and the update as delivered to the callback (0 = zero time).
ParseOne(h, up, now) ==
    LET st == IF h.started[up.uuid] = 0 THEN now ELSE h.started[up.uuid]
        fin == IF h.finished[up.uuid] = 0 /\ IsCompletedType(up.Status)
               THEN now ELSE h.finished[up.uuid]
    IN [h |-> [started |-> [h.started EXCEPT ![up.uuid] = st],
               finished |-> [h.finished EXCEPT ![up.uuid] =
                                IF IsCompletedType(up.Status) THEN fin ELSE @]],
        update |-> [uuid |-> up.uuid, Status |-> up.Status, Started |-> st,
                    Finished |-> fin]]

RECURSIVE ParseAll(_, _, _)
ParseAll(h, ups, now) ==
    IF ups = <<>> THEN [h |-> h, delivered |-> <<>>]
    ELSE LET one == ParseOne(h, Head(ups), now)
             rest == ParseAll(one.h, Tail(ups), now)
         IN [h |-> rest.h, delivered |-> <<one.update>> \o rest.delivered]

\* What a started yt-dlp process may end with: its exit code, its stderr and
\* the error of cmd.Run (an ExitError exactly when the exit code is not zero;
\* with exit code 0, a WaitDelay or pipe error is still possible).
NoSuchOption == "error: no such option"
ProcessOutcomes ==
    { o \in [ExitCode : {0, 2}, Stderr : {<<>>, <<"Usage:", NoSuchOption>>},
             err : {"none", "exit", "waitdelay"}] :
        (o.ExitCode # 0) <=> (o.err = "exit") }

Contains(text, marker) == \E i \in 1..Len(text) : text[i] = marker

\* wrapError(r, err): hasResult is r != nil, under is the kind of err.
WrapError(hasResult, under, exitCode, stderr) ==
    IF under = "none" THEN "nil"
    ELSE IF ~hasResult THEN "ErrUnknown"
    ELSE IF under \in {"dot", "notfound"} THEN "ErrMisconfig"
    ELSE IF exitCode # 0 THEN "ErrExitCode"
    ELSE IF Contains(stderr, NoSuchOption) THEN "ErrParsing"
    ELSE "ErrUnknown"

EnvGet(e, k) == IF \E p \in e : p[1] = k THEN (CHOOSE p \in e : p[1] = k)[2] ELSE <<>>
EnvSet(e, k, v) == {p \in e : p[1] # k} \cup {<<k, v>>}
InSeq(x, sq) == \E i \in 1..Len(sq) : sq[i] = x

\* The PATH loop of BuildCommand: every parent entry that is not among the
\* custom entries is put in front of them.
RECURSIVE MergePath(_, _)
MergePath(paths, cpaths) ==
    IF paths = <<>> THEN cpaths
    ELSE MergePath(Tail(paths),
                   IF InSeq(Head(paths), cpaths) THEN cpaths
                   ELSE <<Head(paths)>> \o cpaths)

\* The environment BuildCommand computes, before the cache directory is added.
MergedEnv(c) ==
    LET base == IF disableEnvVarInherit[c] THEN {} ELSE ParentEnv
        lang == IF \E p \in env[c] : p[1] = "LANG"
                THEN EnvSet(base, "LANG", EnvGet(env[c], "LANG")) ELSE base
    IN IF \E p \in env[c] : p[1] = "PATH"
       THEN EnvSet(lang, "PATH",
                   IF EnvGet(base, "PATH") # <<>>
                   THEN MergePath(EnvGet(base, "PATH"), EnvGet(env[c], "PATH"))
                   ELSE EnvGet(env[c], "PATH"))
       ELSE lang

NoDir == [n \in FileNames |-> NoFile]

\* exec.LookPath of a bare name: found when a yt-dlp is on the system PATH.
LookPathFound(name) == name = "yt-dlp" /\ sysBin # NoFile

\* Whether os.StartProcess of the path succeeds.
Startable(path) ==
    \/ path = "/opt/yt-dlp"
    \/ path = "/usr/bin/yt-dlp" /\ YtdlpGetVersion(sysBin) # ""
    \/ path \in FileNames /\ YtdlpGetVersion(cacheDir[path]) # ""

\* BuildCommand(ctx, args...): the flag config it leaves behind and the
\* *exec.Cmd it returns.
BuildCmd(c, args) ==
    LET fc == flagConfig[c]
        autoBun == /\ bunResolveCache # NoInstall
                   /\ Len(fc.JsRuntimes) = 0
                   /\ fc.NoJsRuntimes = "nil"
        fc2 == IF autoBun THEN [fc EXCEPT !.JsRuntimes = <<"bun">>] ELSE fc
        r == ResolveExecutable(IF userCacheDirOK THEN cacheDir ELSE NoDir,
                               sysBin, FALSE, FALSE)
        resolved == executable[c] = "" /\ ytdlpResolveCache = NoInstall
        resolveErr == resolved /\ ~r.found
        name == IF executable[c] # "" THEN executable[c]
                ELSE IF ytdlpResolveCache # NoInstall
                     THEN ytdlpResolveCache.Executable
                ELSE IF r.found THEN r.Executable ELSE ""
        \* exec.CommandContext: a bare name is looked up on PATH
        lookErr == IF name \in BareNames /\ ~LookPathFound(name)
                   THEN "notfound" ELSE "none"
        path == IF name \in BareNames /\ LookPathFound(name)
                THEN "/usr/bin/yt-dlp" ELSE name
        \* cacheDir, err := GetCacheDir() assigns the err of the resolution
        err == IF userCacheDirOK THEN "none" ELSE "cachedir"
        menv == MergedEnv(c)
    IN [flagConfig |-> fc2,
        resolveErr |-> resolveErr,
        cmd |-> [by |-> c,
                 Path |-> path,
                 Args |-> <<name>> \o ToFlags(fc2) \o args,
                 Err |-> IF err # "none" THEN err ELSE lookErr,
                 Dir |-> directory[c],
                 Env |-> IF userCacheDirOK
                         THEN EnvSet(menv, "PATH",
                                     <<CacheDirPath>> \o EnvGet(menv, "PATH"))
                         ELSE menv,
                 WaitDelay |-> cancelMaxWait[c]]]

\* The settings of a Command that an invocation consumes.
Settings(c) ==
    [executable |-> executable[c], directory |-> directory[c], env |-> env[c],
     flagConfig |-> flagConfig[c]]

NoCmd == [by |-> "", Path |-> "", Args |-> <<>>, Err |-> "none", Dir |-> "",
          Env |-> {}, WaitDelay |-> 0]
NoRun == [by |-> "", resolveErr |-> FALSE, spawned |-> FALSE, hasResult |-> FALSE,
          ExitCode |-> 0, Stderr |-> <<>>, under |-> "none", class |-> "nil",
          delivered |-> <<>>]

\* Every operation counts towards the budget and records what it was; an
\* UnsetProgressFunc that directly follows ProgressFunc on the same Command
\* also records, as history, the flag tokens the Command had before the two.
Op(name, c) ==
    /\ exists[c]
    /\ cmdOps < MaxCmdOps
    /\ cmdOps' = cmdOps + 1
    /\ lastOp' = [op |-> name, by |-> c,
                  undo |-> IF name = "UnsetProgressFunc" /\ lastOp.op = "ProgressFunc"
                              /\ lastOp.by = c
                           THEN <<ToFlags(before.flagConfig)>> ELSE <<>>]
    /\ before' = Settings(c)

SetExecutable(c, path) ==
    /\ Op("SetExecutable", c)
    /\ executable' = [executable EXCEPT ![c] = path]
    /\ UNCHANGED <<exists, directory, env, flagConfig, disableEnvVarInherit,
                   cancelMaxWait, progress, handlers, nextHandler, userCacheDirOK,
                   cmdClock, lastCmd, lastRun, installVars>>

SetWorkDir(c, path) ==
    /\ Op("SetWorkDir", c)
    /\ directory' = [directory EXCEPT ![c] = path]
    /\ UNCHANGED <<exists, executable, env, flagConfig, disableEnvVarInherit,
                   cancelMaxWait, progress, handlers, nextHandler, userCacheDirOK,
                   cmdClock, lastCmd, lastRun, installVars>>

\* SetEnvVar(key, value): an empty value deletes the key.
SetEnvVar(c, k, v) ==
    /\ Op("SetEnvVar", c)
    /\ env' = [env EXCEPT ![c] =
                 IF v = <<>> THEN {p \in @ : p[1] # k} ELSE EnvSet(@, k, v)]
    /\ UNCHANGED <<exists, executable, directory, flagConfig, disableEnvVarInherit,
                   cancelMaxWait, progress, handlers, nextHandler, userCacheDirOK,
                   cmdClock, lastCmd, lastRun, installVars>>

SetEnvVarInherit(c, enabled) ==
    /\ Op("SetEnvVarInherit", c)
    /\ disableEnvVarInherit' = [disableEnvVarInherit EXCEPT ![c] = ~enabled]
    /\ UNCHANGED <<exists, executable, directory, env, flagConfig, cancelMaxWait,
                   progress, handlers, nextHandler, userCacheDirOK, cmdClock,
                   lastCmd, lastRun, installVars>>

SetCancelMaxWait(c, w) ==
    /\ Op("SetCancelMaxWait", c)
    /\ cancelMaxWait' = [cancelMaxWait EXCEPT ![c] = w]
    /\ UNCHANGED <<exists, executable, directory, env, flagConfig,
                   disableEnvVarInherit, progress, handlers, nextHandler,
                   userCacheDirOK, cmdClock, lastCmd, lastRun, installVars>>

\* SetFlagConfig(fc): the Command takes a copy of fc.
SetFlagConfig(c, fc) ==
    /\ Op("SetFlagConfig", c)
    /\ flagConfig' = [flagConfig EXCEPT ![c] = fc]
    /\ UNCHANGED <<exists, executable, directory, env, disableEnvVarInherit,
                   cancelMaxWait, progress, handlers, nextHandler, userCacheDirOK,
                   cmdClock, lastCmd, lastRun, installVars>>

\* ProgressFunc(frequency, fn): the progress flags are switched on and a new
\* handler is allocated.
ProgressFunc(c) ==
    /\ Op("ProgressFunc", c)
    /\ nextHandler < MaxHandlers
    /\ nextHandler' = nextHandler + 1
    /\ flagConfig' = [flagConfig EXCEPT ![c].Progress = "true"]
    /\ handlers' = [handlers EXCEPT ![nextHandler + 1] = NewProgressHandler]
    /\ progress' = [progress EXCEPT ![c] = nextHandler + 1]
    /\ UNCHANGED <<exists, executable, directory, env, disableEnvVarInherit,
                   cancelMaxWait, userCacheDirOK, cmdClock, lastCmd, lastRun,
                   installVars>>

UnsetProgressFunc(c) ==
    /\ Op("UnsetProgressFunc", c)
    /\ progress' = [progress EXCEPT ![c] = 0]
    /\ UNCHANGED <<exists, executable, directory, env, flagConfig,
                   disableEnvVarInherit, cancelMaxWait, handlers, nextHandler,
                   userCacheDirOK, cmdClock, lastCmd, lastRun, installVars>>

\* c.Clone(): executable, directory, a copy of env, a copy of the flag config,
\* and the progress pointer; the remaining fields keep their zero values.
Clone(c, d) ==
    /\ Op("Clone", c)
    /\ ~exists[d]
    /\ exists' = [exists EXCEPT ![d] = TRUE]
    /\ executable' = [executable EXCEPT ![d] = executable[c]]
    /\ directory' = [directory EXCEPT ![d] = directory[c]]
    /\ env' = [env EXCEPT ![d] = env[c]]
    /\ flagConfig' = [flagConfig EXCEPT ![d] = flagConfig[c]]
    /\ progress' = [progress EXCEPT ![d] = progress[c]]
    /\ disableEnvVarInherit' = [disableEnvVarInherit EXCEPT ![d] = FALSE]
    /\ cancelMaxWait' = [cancelMaxWait EXCEPT ![d] = 0]
    /\ UNCHANGED <<handlers, nextHandler, userCacheDirOK, cmdClock, lastCmd, lastRun,
                   installVars>>

\* A BuildCommand that keeps the executable it resolved in the resolve-cache
\* cell, as Install does.
BuildCommandCaching(c, args) ==
    /\ Op("BuildCommand", c)
    /\ flagConfig' = [flagConfig EXCEPT ![c] = BuildCmd(c, args).flagConfig]
    /\ lastCmd' = BuildCmd(c, args).cmd
    /\ ytdlpResolveCache' =
          IF executable[c] = "" /\ ytdlpResolveCache = NoInstall
                /\ BuildCmd(c, args).cmd.Path # ""
          THEN [ptr |-> nextPtr + 1, Executable |-> BuildCmd(c, args).cmd.Path,
                Version |-> "", FromCache |-> FALSE, Downloaded |-> FALSE]
          ELSE ytdlpResolveCache
    /\ UNCHANGED <<exists, executable, directory, env, disableEnvVarInherit,
                   cancelMaxWait, progress, handlers, nextHandler, userCacheDirOK,
                   cmdClock, lastRun>>
    /\ UNCHANGED <<bunResolveCache, ytdlpInstallLock, cacheDir, sysBin, pc, opts,
                   ret, nextPtr, calls, rmPc, clears, renamed, stored, downloaded,
                   installedByDownload, redundantDownload>>

\* BuildCommand(ctx, args...)
BuildCommand(c, args) ==
    /\ Op("BuildCommand", c)
    /\ flagConfig' = [flagConfig EXCEPT ![c] = BuildCmd(c, args).flagConfig]
    /\ lastCmd' = BuildCmd(c, args).cmd
    /\ UNCHANGED <<exists, executable, directory, env, disableEnvVarInherit,
                   cancelMaxWait, progress, handlers, nextHandler, userCacheDirOK,
                   cmdClock, lastRun, installVars>>

\* Run(ctx, args...) for a flag config that validates: BuildCommand, then
\* runWithResult.  A handle that carries an error is never started; otherwise
\* cmd.Run either fails to start the process (no command, no such file) or
\* the process runs, its progress lines go to the handler, and it ends with
\* one of ProcessOutcomes.
Run(c, args, out, ups) ==
    /\ Op("Run", c)
    /\ LET b == BuildCmd(c, args)
           cmd == b.cmd
           started == cmd.Err = "none" /\ cmd.Path # "" /\ Startable(cmd.Path)
           under == IF cmd.Err # "none" THEN cmd.Err
                    ELSE IF cmd.Path = "" THEN "nocommand"
                    ELSE IF ~Startable(cmd.Path) THEN "patherr"
                    ELSE out.err
           \* (*ProcessState)(nil).ExitCode() is -1
           exitCode == IF started THEN out.ExitCode ELSE -1
           stderr == IF started THEN out.Stderr ELSE <<>>
           hasResult == cmd.Err = "none"
           h == progress[c]
           parsed == IF started /\ h # 0
                     THEN ParseAll(handlers[h], ups, cmdClock + 1)
                     ELSE [h |-> NewProgressHandler, delivered |-> <<>>]
       IN /\ flagConfig' = [flagConfig EXCEPT ![c] = b.flagConfig]
          /\ lastCmd' = cmd
          /\ handlers' = IF started /\ h # 0
                         THEN [handlers EXCEPT ![h] = parsed.h] ELSE handlers
          /\ cmdClock' = cmdClock + 1
          /\ lastRun' = [by |-> c, resolveErr |-> b.resolveErr, spawned |-> started,
                         hasResult |-> hasResult, ExitCode |-> exitCode,
                         Stderr |-> stderr, under |-> under,
                         class |-> WrapError(hasResult, under, exitCode, stderr),
                         delivered |-> parsed.delivered]
    /\ UNCHANGED <<exists, executable, directory, env, disableEnvVarInherit,
                   cancelMaxWait, progress, nextHandler, userCacheDirOK, installVars>>

\* InstallBun: on success the bun cell holds the resolved install.
InstallBun ==
    /\ cmdOps < MaxCmdOps
    /\ cmdOps' = cmdOps + 1
    /\ lastOp' = [op |-> "InstallBun", by |-> "", undo |-> <<>>]
    /\ bunResolveCache = NoInstall
    /\ bunResolveCache' = [ptr |-> 1, Executable |-> "bun", Version |-> "bun",
                           FromCache |-> TRUE, Downloaded |-> TRUE]
    /\ UNCHANGED <<exists, executable, directory, env, flagConfig,
                   disableEnvVarInherit, cancelMaxWait, progress, handlers,
                   nextHandler, userCacheDirOK, cmdClock, lastCmd, lastRun, before>>
    /\ UNCHANGED <<ytdlpResolveCache, ytdlpInstallLock, cacheDir, sysBin, pc, opts,
                   ret, nextPtr, calls, rmPc, clears, renamed, stored, downloaded,
                   installedByDownload, redundantDownload>>

\* The process loses $HOME and $XDG_CACHE_HOME: os.UserCacheDir fails from now on.
UnsetHome ==
    /\ cmdOps < MaxCmdOps
    /\ cmdOps' = cmdOps + 1
    /\ lastOp' = [op |-> "Unsetenv", by |-> "", undo |-> <<>>]
    /\ userCacheDirOK
    /\ userCacheDirOK' = FALSE
    /\ UNCHANGED <<exists, executable, directory, env, flagConfig,
                   disableEnvVarInherit, cancelMaxWait, progress, handlers,
                   nextHandler, cmdClock, lastCmd, lastRun, before, installVars>>

InitCmd ==
    /\ exists = [c \in CmdIds |-> c = "a"]
    /\ executable = [c \in CmdIds |-> ""]
    /\ directory = [c \in CmdIds |-> ""]
    /\ env = [c \in CmdIds |-> {}]
    /\ flagConfig = [c \in CmdIds |-> NewFlagConfig]
    /\ disableEnvVarInherit = [c \in CmdIds |-> FALSE]
    /\ cancelMaxWait = [c \in CmdIds |-> IF c = "a" THEN DefaultCancelMaxWait ELSE 0]
    /\ progress = [c \in CmdIds |-> 0]
    /\ handlers = [h \in 1..MaxHandlers |-> NewProgressHandler]
    /\ nextHandler = 0
    /\ userCacheDirOK = TRUE
    /\ cmdClock = 0
    /\ lastCmd = NoCmd
    /\ lastRun = NoRun
    /\ lastOp = [op |-> "New", by |-> "a", undo |-> <<>>]
    /\ before = [executable |-> "", directory |-> "", env |-> {},
                 flagConfig |-> NewFlagConfig]
    /\ cmdOps = 0

NextCmd ==
    \/ \E c \in CmdIds, path \in ExecNames : SetExecutable(c, path)
    \/ \E c \in CmdIds : SetWorkDir(c, "/work")
    \/ \E c \in CmdIds, kv \in EnvInputs : SetEnvVar(c, kv[1], kv[2])
    \/ \E c \in CmdIds : SetEnvVarInherit(c, FALSE)
    \/ \E c \in CmdIds : SetCancelMaxWait(c, 5)
    \/ \E c \in CmdIds, fc \in FlagConfigs : SetFlagConfig(c, fc)
    \/ \E c \in CmdIds : ProgressFunc(c)
    \/ \E c \in CmdIds : UnsetProgressFunc(c)
    \/ \E c, d \in CmdIds : Clone(c, d)
    \/ \E c \in CmdIds, args \in PositionalArgs : BuildCommand(c, args)
    \/ \E c \in CmdIds, args \in PositionalArgs, out \in ProcessOutcomes,
          ups \in UpdateSeqs : Run(c, args, out, ups)
    \/ InstallBun
    \/ UnsetHome
    \/ RemoveAll /\ UNCHANGED cmdVars
    \/ ClearCells /\ UNCHANGED cmdVars

(***************************************************************************)
(* Stream writers                                                          *)
(***************************************************************************)
Pipes == {"stdout", "stderr"}

\* Bytes: an ordinary byte, a space and the newline.
NL == "\n"
IsSpace(b) == b \in {" ", NL}

Line == <<"a", NL>>
Chunks ==
    { <<"a">>, Line, <<"a", " ", NL, "a">>,
      Line \o Line \o Line \o Line \o Line \o Line \o Line }

\* A writer without progress handler and with checkJSON off; the zero time is 0.
\* bufStart and firsts are history, not fields of the writer: the time at
\* which the first byte now in buf was received (0 for an empty buf), and for
\* every recorded result the time at which its first byte was received.
NewWriter ==
    [buf |-> <<>>, lastWriteStart |-> 0, results |-> <<>>,
     bufStart |-> 0, firsts |-> <<>>]

\* buf.Write(seg) at time now
BufWrite(w, seg, now) ==
    [w EXCEPT !.buf = @ \o seg,
              !.bufStart = IF w.buf = <<>> /\ seg # <<>> THEN now ELSE @]

\* bytes.TrimRightFunc(line, unicode.IsSpace)
RECURSIVE TrimRight(_)
TrimRight(b) ==
    IF b = <<>> THEN <<>>
    ELSE IF IsSpace(b[Len(b)]) THEN TrimRight(SubSeq(b, 1, Len(b) - 1))
    ELSE b

\* bytes.IndexByte(p, '\n'), 1-based; 0 when there is none
IndexNL(p) ==
    IF \E i \in 1..Len(p) : p[i] = NL
    THEN CHOOSE i \in 1..Len(p) : p[i] = NL /\ \A j \in 1..(i - 1) : p[j] # NL
    ELSE 0

\* timestampWriter.flush: the buffered line is recorded with the time the
\* writer noted as its start.  n is the identity of the *ResultLog: its
\* position among the results of its writer.
Flush(w, pipe) ==
    IF w.buf = <<>> THEN w
    ELSE [buf |-> <<>>,
          lastWriteStart |-> 0,
          bufStart |-> 0,
          firsts |-> Append(w.firsts, w.bufStart),
          results |-> Append(w.results,
                             [Timestamp |-> w.lastWriteStart,
                              Line |-> TrimRight(w.buf),
                              Pipe |-> pipe,
                              n |-> Len(w.results) + 1])]

\* timestampWriter.Write(p) at time now.
RECURSIVE WriteBytes(_, _, _, _)
WriteBytes(w, pipe, p, now) ==
    LET w1 == IF w.lastWriteStart = 0 THEN [w EXCEPT !.lastWriteStart = now] ELSE w
        i == IndexNL(p)
    IN IF i > 0
       THEN WriteBytes(Flush(BufWrite(w1, SubSeq(p, 1, i), now), pipe),
                       pipe, SubSeq(p, i + 1, Len(p)), now)
       ELSE BufWrite(w1, p, now)

\* Insertion of r into a sequence sorted by Timestamp, after every entry that
\* is not later than r (insertionSortLessFunc moves an entry left only past
\* entries it is less than).
RECURSIVE InsertSorted(_, _)
InsertSorted(sorted, r) ==
    IF sorted = <<>> THEN <<r>>
    ELSE IF r.Timestamp < sorted[Len(sorted)].Timestamp
         THEN Append(InsertSorted(SubSeq(sorted, 1, Len(sorted) - 1), r),
                     sorted[Len(sorted)])
         ELSE Append(sorted, r)

RECURSIVE InsertionSort(_)
InsertionSort(rs) ==
    IF rs = <<>> THEN <<>>
    ELSE InsertSorted(InsertionSort(SubSeq(rs, 1, Len(rs) - 1)), rs[Len(rs)])

\* sort.Slice sorts up to 12 elements by insertion; beyond that it runs
\* pattern-defeating quicksort.
InsertionSortLimit == 12

Exchange(rs, i, j) == [rs EXCEPT ![i] = rs[j], ![j] = rs[i]]

IsSortedByTime(rs) ==
    \A i \in 1..(Len(rs) - 1) : rs[i].Timestamp <= rs[i + 1].Timestamp

\* sort.Slice(results, by Timestamp.Before): the result is sorted by
\* timestamp.  Up to the insertion-sort limit, and for an input that is
\* already sorted, no entry moves past an entry of equal timestamp; otherwise
\* the sort partitions around pivots and is not stable: neighbouring entries
\* of equal timestamp may come out exchanged.
SortSlice(rs) ==
    LET st == InsertionSort(rs)
    IN IF Len(rs) <= InsertionSortLimit \/ IsSortedByTime(rs) THEN {st}
       ELSE {st} \cup
            { Exchange(st, i, i + 1) :
                i \in {k \in 1..(Len(st) - 1) :
                            st[k].Timestamp = st[k + 1].Timestamp} }

\* Time passes while the process runs.
Tick ==
    /\ receiver = "none"
    /\ clock < MaxClock
    /\ clock' = clock + 1
    /\ UNCHANGED <<writers, merged, receiver, writes>>

\* The process writes chunk p to one of its pipes.
Write(pipe, p) ==
    /\ receiver = "none"
    /\ writes < MaxWrites
    /\ writes' = writes + 1
    /\ writers' = [writers EXCEPT ![pipe] = WriteBytes(@, pipe, p, clock)]
    /\ UNCHANGED <<clock, merged, receiver>>

\* timestampWriter.String: the writer is flushed before its lines are joined
\* (runWithResult calls it on both writers before it merges them).
String(pipe) ==
    /\ receiver = "none"
    /\ writers[pipe].buf # <<>>
    /\ writers' = [writers EXCEPT ![pipe] = Flush(@, pipe)]
    /\ UNCHANGED <<clock, merged, receiver, writes>>

Other(pipe) == IF pipe = "stdout" THEN "stderr" ELSE "stdout"

\* What recv.mergeResults(other) may return for writers ws, and the writers
\* after it: only the receiver is flushed, the results of both writers are
\* concatenated, the receiver's first, and sorted by timestamp.
MergeResultsOf(ws, recv) ==
    LET w == Flush(ws[recv], recv)
    IN [writers |-> [ws EXCEPT ![recv] = w],
        results |-> SortSlice(w.results \o ws[Other(recv)].results)]

\* recv.mergeResults(other), once the process has exited.
MergeResults(recv) ==
    /\ receiver = "none"
    /\ receiver' = recv
    /\ writers' = MergeResultsOf(writers, recv).writers
    /\ merged' \in MergeResultsOf(writers, recv).results
    /\ UNCHANGED <<clock, writes>>

InitLog ==
    /\ clock = 1
    /\ writers = [pipe \in Pipes |-> NewWriter]
    /\ merged = <<>>
    /\ receiver = "none"
    /\ writes = 0

NextLog ==
    \/ Tick
    \/ \E pipe \in Pipes, p \in Chunks : Write(pipe, p)
    \/ \E pipe \in Pipes : String(pipe)
    \/ \E recv \in Pipes : MergeResults(recv)

(***************************************************************************)
(* Progress decoder                                                        *)
(***************************************************************************)
\* len(progressTemplateFields)
ProgressFieldCount == 11

\* A progress line, as the fields that progressSplitChars delimits in it.
ProgressLine(status, total, done, id, filename) ==
    <<status, total, done, "NA", "NA", id, "NA", "NA", "NA", "https://e/v", filename>>

\* What the stdout writer may hand to parse: well-formed lines for two
\* downloads, a line cut short, a line with a field too many, a line whose
\* numbers are not numbers, a line whose total (an estimate) is less than
\* what is downloaded already, and the empty line.
ProgressLines ==
    { ProgressLine(st, "100", dn, id, "f") :
        st \in {"downloading", "post_processing", "finished", "error"},
        dn \in {"50"}, id \in {"v1", " v2 "} }
    \cup { SubSeq(ProgressLine("downloading", "100", "50", "v1", "f"), 1, 10),
           ProgressLine("finished", "100", "100", "v1", "f") \o <<"x">>,
           ProgressLine("downloading", "NA", "1e", "v1", "f"),
           ProgressLine("downloading", "50", "100", "v1", "f"),
           <<"">> }

\* strings.SplitN(input, progressSplitChars, n): at most n substrings, the
\* last of them the unsplit remainder (here: the fields it still holds).
SplitN(line, n) ==
    IF Len(line) < n THEN [i \in 1..Len(line) |-> <<line[i]>>]
    ELSE [i \in 1..n |-> IF i < n THEN <<line[i]>> ELSE SubSeq(line, n, Len(line))]

\* strings.TrimSpace, for the strings of ProgressLines
TrimSpace(str) == IF str = " v2 " THEN "v2" ELSE str

\* The clean-up loop of parse: TrimSpace, then "NA" becomes "".
CleanField(f) ==
    IF Len(f) # 1 THEN f
    ELSE IF TrimSpace(f[1]) = "NA" THEN <<"">> ELSE <<TrimSpace(f[1])>>

\* strconv.ParseFloat for the numerals of ProgressLines
Numerals == [str \in {"50", "100"} |-> IF str = "50" THEN 50 ELSE 100]

\* strFloatToInt: the integer part of a number, 0 when the string is none.
StrFloatToInt(f) ==
    IF Len(f) = 1 /\ f[1] \in DOMAIN Numerals THEN Numerals[f[1]] ELSE 0

\* ProgressUpdate.uuid
Uuid(up) == <<up.ID, up.PlaylistID, up.PlaylistIndex, up.Filename>>

\* The fields of the update that parse fills from the cleaned raw fields.
DecodeUpdate(raw) ==
    [Status |-> raw[1][1],
     TotalBytes |-> StrFloatToInt(raw[2]),
     DownloadedBytes |-> StrFloatToInt(raw[3]),
     FragmentIndex |-> StrFloatToInt(raw[4]),
     FragmentCount |-> StrFloatToInt(raw[5]),
     ID |-> raw[6][1],
     PlaylistID |-> raw[7][1],
     PlaylistIndex |-> StrFloatToInt(raw[8]),
     PlaylistCount |-> StrFloatToInt(raw[9]),
     URL |-> raw[10][1],
     Filename |-> raw[11]]

\* The download keys the lines can produce; a key missing from a map of the
\* handler is a key mapped to the zero time.
ProgressKeys ==
    { Uuid(DecodeUpdate([i \in 1..ProgressFieldCount |->
                            CleanField(SplitN(l, ProgressFieldCount)[i])])) :
        l \in {m \in ProgressLines : Len(m) >= ProgressFieldCount} }

NoUpdate ==
    [Status |-> "", TotalBytes |-> 0, DownloadedBytes |-> 0, Started |-> 0,
     Finished |-> 0]

\* progressHandler.parse(input) at time now
Parse(h, input, now) ==
    LET split == SplitN(input, ProgressFieldCount)
    IN IF Len(split) # ProgressFieldCount
       THEN [h |-> h, called |-> FALSE, update |-> NoUpdate, key |-> <<>>]
       ELSE LET raw == [i \in 1..ProgressFieldCount |-> CleanField(split[i])]
                up == DecodeUpdate(raw)
                one == ParseOne(h, [uuid |-> Uuid(up), Status |-> up.Status], now)
            IN [h |-> one.h, called |-> TRUE, key |-> Uuid(up),
                update |-> [Status |-> up.Status,
                            TotalBytes |-> up.TotalBytes,
                            DownloadedBytes |-> up.DownloadedBytes,
                            Started |-> one.update.Started,
                            Finished |-> one.update.Finished]]

\* ProgressUpdate.Percent, as the fraction num/den.
Percent(up) ==
    IF IsCompletedType(up.Status) THEN [num |-> 100, den |-> 1]
    ELSE IF up.TotalBytes = 0 THEN [num |-> 0, den |-> 1]
    ELSE [num |-> up.DownloadedBytes * 100, den |-> up.TotalBytes]

\* ProgressUpdate.Duration at time now.
Duration(up, now) ==
    IF up.Finished = 0 THEN now - up.Started ELSE up.Finished - up.Started

\* The conversion of a quotient to time.Duration cuts off the fraction.
Truncate(a, b) == IF a >= 0 THEN a \div b ELSE -((-a) \div b)

\* ProgressUpdate.ETA at time now: Duration / perc * (100 - perc).
ETA(up, now) ==
    LET perc == Percent(up)
    IN IF perc.num = 0 \/ perc.num = 100 * perc.den THEN 0
       ELSE Truncate(Duration(up, now) * (100 * perc.den - perc.num), perc.num)

ProgressTick ==
    /\ pclock < MaxProgressClock
    /\ pclock' = pclock + 1
    /\ UNCHANGED <<phandler, pcalled, pupdate, pkey, pbefore, pfields, pfirst,
                   pfirstFin, parses>>

\* The stdout writer hands a progress line to the handler.
ParseLine(input) ==
    /\ parses < MaxParses
    /\ parses' = parses + 1
    /\ LET r == Parse(phandler, input, pclock)
       IN /\ phandler' = r.h
          /\ pcalled' = r.called
          /\ pupdate' = r.update
          /\ pkey' = r.key
          /\ pfirst' = IF r.called /\ pfirst[r.key] = 0
                       THEN [pfirst EXCEPT ![r.key] = pclock] ELSE pfirst
          /\ pfirstFin' = IF r.called /\ IsCompletedType(r.update.Status)
                                /\ pfirstFin[r.key] = 0
                          THEN [pfirstFin EXCEPT ![r.key] = pclock] ELSE pfirstFin
    /\ pbefore' = phandler
    /\ pfields' = Len(input)
    /\ UNCHANGED pclock

InitProgress ==
    /\ pclock = 1
    /\ phandler = [started |-> [k \in ProgressKeys |-> 0],
                   finished |-> [k \in ProgressKeys |-> 0]]
    /\ pcalled = FALSE
    /\ pupdate = NoUpdate
    /\ pkey = <<>>
    /\ pbefore = phandler
    /\ pfields = 0
    /\ pfirst = [k \in ProgressKeys |-> 0]
    /\ pfirstFin = [k \in ProgressKeys |-> 0]
    /\ parses = 0

NextProgress ==
    \/ ProgressTick
    \/ \E input \in ProgressLines : ParseLine(input)

(***************************************************************************)
(* One invocation: cmd.Run under a context                                 *)
(***************************************************************************)
\* The WaitDelay timer starts, if WaitDelay is set, when the context is done
\* or when Wait sees the process exit, whichever comes first.
ArmTimer == IF rWaitDelay > 0 /\ rtimer = 0 THEN rtime ELSE rtimer

\* The pipes once the yt-dlp process is gone: still open while a child holds them.
PipesAfterExit == IF rchild THEN rpipes ELSE "closed"

\* Run(ctx, args...): BuildCommand sets cmd.WaitDelay to the Command's
\* cancelMaxWait, runWithResult starts the process and waits for it.
StartProcess(c, child) ==
    /\ rstate = "idle"
    /\ exists[c]
    /\ rstate' = "running"
    /\ rby' = c
    /\ rWaitDelay' = cancelMaxWait[c]
    /\ rproc' = "alive"
    /\ rchild' = child
    /\ rpipes' = "open"
    /\ UNCHANGED <<rtime, rcancelAt, rtimer, rerr>>

\* The caller cancels ctx: the goroutine exec started for the context kills
\* the process (the default Cmd.Cancel) and starts the WaitDelay timer.
CancelCtx ==
    /\ rstate = "running"
    /\ rcancelAt = 0
    /\ rcancelAt' = rtime
    /\ rproc' = "exited"
    /\ rpipes' = PipesAfterExit
    /\ rtimer' = ArmTimer
    /\ rerr' = IF rproc = "alive" THEN "killed" ELSE rerr
    /\ UNCHANGED <<rstate, rby, rWaitDelay, rtime, rchild>>

\* The process exits by itself.
ProcessExits ==
    /\ rstate = "running"
    /\ rproc = "alive"
    /\ rproc' = "exited"
    /\ rpipes' = PipesAfterExit
    /\ rtimer' = ArmTimer
    /\ UNCHANGED <<rstate, rby, rWaitDelay, rtime, rcancelAt, rchild, rerr>>

\* The child that held the output pipes exits or closes them.
ChildCloses ==
    /\ rstate = "running"
    /\ rchild
    /\ rchild' = FALSE
    /\ rpipes' = IF rproc = "exited" THEN "closed" ELSE rpipes
    /\ UNCHANGED <<rstate, rby, rWaitDelay, rtime, rcancelAt, rproc, rtimer, rerr>>

TimerDue == rtimer # 0 /\ rtime >= rtimer + rWaitDelay /\ rpipes = "open"

\* The WaitDelay timer expires: exec closes the pipes itself.
TimerFires ==
    /\ rstate = "running"
    /\ TimerDue
    /\ rpipes' = "closed"
    /\ rproc' = "exited"
    /\ rerr' = "waitdelay"
    /\ UNCHANGED <<rstate, rby, rWaitDelay, rtime, rcancelAt, rchild, rtimer>>

CanReturn == rstate = "running" /\ rproc = "exited" /\ rpipes = "closed"

\* cmd.Wait returns once the process has exited and the goroutines copying
\* its output have seen the pipes closed; Run returns with it.
WaitReturns ==
    /\ CanReturn
    /\ rstate' = "returned"
    /\ UNCHANGED <<rby, rWaitDelay, rtime, rcancelAt, rproc, rchild, rpipes, rtimer,
                   rerr>>

\* A second passes; a return or a timer that is due happens first.
RunTick ==
    /\ rstate = "running"
    /\ rtime < MaxRunClock
    /\ ~CanReturn
    /\ ~TimerDue
    /\ rtime' = rtime + 1
    /\ UNCHANGED <<rstate, rby, rWaitDelay, rcancelAt, rproc, rchild, rpipes, rtimer,
                   rerr>>

InitRun ==
    /\ rstate = "idle"
    /\ rby = ""
    /\ rWaitDelay = 0
    /\ rtime = 1
    /\ rcancelAt = 0
    /\ rproc = "none"
    /\ rchild = FALSE
    /\ rpipes = "closed"
    /\ rtimer = 0
    /\ rerr = "none"

NextRun ==
    \/ \E c \in CmdIds : SetCancelMaxWait(c, 2) /\ rstate = "idle" /\ UNCHANGED runVars
    \/ \E c, d \in CmdIds : Clone(c, d) /\ rstate = "idle" /\ UNCHANGED runVars
    \/ \E c \in CmdIds, child \in BOOLEAN : StartProcess(c, child) /\ UNCHANGED cmdVars
    \/ CancelCtx /\ UNCHANGED cmdVars
    \/ ProcessExits /\ UNCHANGED cmdVars
    \/ ChildCloses /\ UNCHANGED cmdVars
    \/ TimerFires /\ UNCHANGED cmdVars
    \/ WaitReturns /\ UNCHANGED cmdVars
    \/ RunTick /\ UNCHANGED cmdVars

(***************************************************************************)
(* Template encoder                                                        *)
(***************************************************************************)
templateDelimiter == "|"

\* The kinds of struct field: the ones Encode has a case for, and two it has none for.
FieldKinds == {"string", "bool", "int", "float64", "map", "uint"}

\* A struct field: its kind, its ytdlp tag ("" when it has none) and whether
\* it holds the zero value of its kind.
StructFields == [Kind : FieldKinds, Tag : {"", "field1"}, Zero : BOOLEAN]

\* The value a field holds, as fmt prints it with the verb of its kind
\* (%q, %t, %d; %g for a float).
Printed(f) ==
    CASE f.Kind = "string" -> IF f.Zero THEN "\"\"" ELSE "\"hello\""
      [] f.Kind = "bool" -> IF f.Zero THEN "false" ELSE "true"
      [] f.Kind = "int" -> IF f.Zero THEN "0" ELSE "100"
      [] f.Kind = "float64" -> IF f.Zero THEN "0" ELSE "1.5"
      [] OTHER -> ""

\* What MarshalTemplate may be given: structs of up to MaxFields fields, a
\* string, a pointer to a struct, and nil.
Structs == UNION {[1..n -> StructFields] : n \in 0..MaxFields}
TemplateInputs ==
    {[kind |-> "struct", fields |-> fs] : fs \in Structs}
    \cup {[kind |-> k, fields |-> <<>>] : k \in {"string", "ptr", "nil"}}

FieldName(i) == "Field" \o ToString(i)

\* The fallback literal of a substitution reference.
Fallback(kind) ==
    CASE kind = "string" -> "\"\""
      [] kind = "bool" -> "false"
      [] OTHER -> "0"

Reference(f) == "%(" \o f.Tag \o "|" \o Fallback(f.Kind) \o ")j"

\* One pass of the field loop of Encode: "skip" (continue), "panic", or the
\* element "Name=...".  field.Int() panics for a value that is not of an
\* integer kind.
EncodeField(i, f) ==
    IF f.Tag = "" /\ f.Zero THEN "skip"
    ELSE IF f.Kind \in {"string", "bool"}
    THEN FieldName(i) \o "=" \o (IF f.Tag = "" THEN Printed(f) ELSE Reference(f))
    ELSE IF f.Kind \in {"int", "float64"}
    THEN IF f.Tag # "" THEN FieldName(i) \o "=" \o Reference(f)
         ELSE IF f.Kind = "int" THEN FieldName(i) \o "=" \o Printed(f)
         ELSE "panic"
    ELSE "skip"

\* The loop of Encode over the fields i..Len(fs), sb being what the builder holds.
RECURSIVE EncodeFrom(_, _, _)
EncodeFrom(fs, i, sb) ==
    IF i > Len(fs) THEN [kind |-> "ok", out |-> sb]
    ELSE LET el == EncodeField(i, fs[i])
         IN IF el = "panic" THEN [kind |-> "panic", out |-> ""]
            ELSE IF el = "skip" THEN EncodeFrom(fs, i + 1, sb)
            ELSE EncodeFrom(fs, i + 1,
                            IF sb # "" THEN sb \o templateDelimiter \o el ELSE el)

\* MarshalTemplate(v): reflect.ValueOf(nil) is the zero Value, whose Kind is
\* Invalid and whose Type() panics.
MarshalTemplateResult(v) ==
    IF v.kind = "nil" THEN [kind |-> "panic", out |-> ""]
    ELSE IF v.kind # "struct" THEN [kind |-> "err", out |-> ""]
    ELSE EncodeFrom(v.fields, 1, "")

MarshalTemplate(v) ==
    /\ tin' = v
    /\ tout' = MarshalTemplateResult(v)

InitTemplate ==
    /\ tin = [kind |-> "none", fields |-> <<>>]
    /\ tout = [kind |-> "none", out |-> ""]

NextTemplate == \E v \in TemplateInputs : MarshalTemplate(v)

(***************************************************************************)
(* Goroutines sharing one Command                                          *)
(***************************************************************************)
Goroutines == {1, 2}

\* The steps a method is made of: operations on c.mu and accesses to a field.
Lock == [t |-> "Lock", f |-> ""]
Unlock == [t |-> "Unlock", f |-> ""]
RLock == [t |-> "RLock", f |-> ""]
RUnlock == [t |-> "RUnlock", f |-> ""]
Read(f) == [t |-> "read", f |-> f]
WriteField(f) == [t |-> "write", f |-> f]

\* A setter: c.mu.Lock(); c.field = ...; c.mu.Unlock().  addFlag and
\* removeFlagByID have this shape too, on the Command's flags.
Setter(f) == <<Lock, WriteField(f), Unlock>>

\* ProgressFunc: four flag builders, then the handler is stored.
ProgressFuncSteps ==
    Setter("flagConfig") \o Setter("flagConfig") \o Setter("flagConfig")
        \o Setter("flagConfig") \o Setter("progress")

CloneSteps ==
    <<RLock, Read("executable"), Read("directory"), Read("env"), Read("flagConfig"),
      Read("separateProcessGroup"), Read("progress"), RUnlock>>

\* BuildCommand: the flags are read (and, when bun is cached and no runtime is
\* chosen, written) before c.mu.RLock(); the rest is read under the read lock.
BuildCommandSteps(enableBun) ==
    <<Read("flagConfig")>>
        \o (IF enableBun THEN <<WriteField("flagConfig")>> ELSE <<>>)
        \o <<Read("flagConfig"), RLock, Read("executable"), Read("disableEnvVarInherit"),
             Read("env"), Read("cancelMaxWait"), Read("directory"), RUnlock>>

\* runWithResult: c.progress, hasJSONFlag() and c.separateProcessGroup.
RunWithResultSteps ==
    <<Read("progress"), Read("flagConfig"), Read("separateProcessGroup")>>

\* Run: flagConfig.Validate(), BuildCommand, runWithResult.
RunSteps(enableBun) ==
    <<Read("flagConfig")>> \o BuildCommandSteps(enableBun) \o RunWithResultSteps

LockOps ==
    {"SetExecutable", "SetWorkDir", "SetEnvVar", "SetSeparateProcessGroup",
     "SetCancelMaxWait", "SetEnvVarInherit", "SetFlagConfig", "GetFlagConfig",
     "addFlag", "removeFlagByID", "ProgressFunc", "UnsetProgressFunc", "Clone",
     "BuildCommand", "BuildCommandEnablingBun", "Run", "RunEnablingBun"}

Steps(op) ==
    CASE op = "SetExecutable" -> Setter("executable")
      [] op = "SetWorkDir" -> Setter("directory")
      [] op = "SetEnvVar" -> Setter("env")
      [] op = "SetSeparateProcessGroup" -> Setter("separateProcessGroup")
      [] op = "SetCancelMaxWait" -> Setter("cancelMaxWait")
      [] op = "SetEnvVarInherit" -> Setter("disableEnvVarInherit")
      [] op = "SetFlagConfig" -> Setter("flagConfig")
      [] op = "GetFlagConfig" -> <<RLock, Read("flagConfig"), RUnlock>>
      [] op = "addFlag" -> Setter("flagConfig")
      [] op = "removeFlagByID" -> Setter("flagConfig")
      [] op = "ProgressFunc" -> ProgressFuncSteps
      [] op = "UnsetProgressFunc" -> Setter("progress")
      [] op = "Clone" -> CloneSteps
      [] op = "BuildCommand" -> BuildCommandSteps(FALSE)
      [] op = "BuildCommandEnablingBun" -> BuildCommandSteps(TRUE)
      [] op = "Run" -> RunSteps(FALSE)
      [] op = "RunEnablingBun" -> RunSteps(TRUE)

Idle == [op |-> "idle", i |-> 0]

\* The step goroutine g is about to take.
Current(g) == Steps(lpc[g].op)[lpc[g].i]

\* g moves past its current step; the method returns after its last one.
Advance(g) ==
    lpc' = [lpc EXCEPT ![g] = IF lpc[g].i = Len(Steps(lpc[g].op)) THEN Idle
                              ELSE [lpc[g] EXCEPT !.i = @ + 1]]

\* Goroutine g calls a method of the Command.
Call(g, op) ==
    /\ lpc[g] = Idle
    /\ lpc' = [lpc EXCEPT ![g] = [op |-> op, i |-> 1]]
    /\ UNCHANGED <<mu, lacc>>

\* sync.RWMutex: Lock waits for no writer and no readers, RLock for no writer.
AcquireMu(g) ==
    /\ lpc[g] # Idle
    /\ \/ /\ Current(g).t = "Lock"
          /\ mu.writer = 0 /\ mu.readers = {}
          /\ mu' = [mu EXCEPT !.writer = g]
       \/ /\ Current(g).t = "RLock"
          /\ mu.writer = 0
          /\ mu' = [mu EXCEPT !.readers = @ \cup {g}]
    /\ Advance(g)
    /\ UNCHANGED lacc

ReleaseMu(g) ==
    /\ lpc[g] # Idle
    /\ \/ /\ Current(g).t = "Unlock"
          /\ mu' = [mu EXCEPT !.writer = 0]
       \/ /\ Current(g).t = "RUnlock"
          /\ mu' = [mu EXCEPT !.readers = @ \ {g}]
    /\ Advance(g)
    /\ UNCHANGED lacc

\* g reads or writes a field; what it holds of c.mu at that moment is recorded.
Access(g) ==
    /\ lpc[g] # Idle
    /\ Current(g).t \in {"read", "write"}
    /\ lacc' = [g |-> g, f |-> Current(g).f, t |-> Current(g).t, op |-> lpc[g].op,
                holds |-> IF mu.writer = g THEN "Lock"
                          ELSE IF g \in mu.readers THEN "RLock" ELSE "none"]
    /\ Advance(g)
    /\ UNCHANGED mu

InitLock ==
    /\ lpc = [g \in Goroutines |-> Idle]
    /\ mu = [writer |-> 0, readers |-> {}]
    /\ lacc = [g |-> 0, f |-> "", t |-> "none", op |-> "idle", holds |-> "none"]

NextLock ==
    \E g \in Goroutines :
        \/ \E op \in LockOps : Call(g, op)
        \/ AcquireMu(g)
        \/ ReleaseMu(g)
        \/ Access(g)

(***************************************************************************)
(* One stream writer and its byte stream                                   *)
(***************************************************************************)
StreamBytes == {"a", " ", NL}

\* The chunks a Write may be given.
StreamChunks == UNION {[1..n -> StreamBytes] : n \in 1..MaxChunk}

\* timestampWriter.Write as the second copy of the writer has it: after the
\* first line of p is flushed, the rest of p is put in the buffer as it is.
WriteBytesOnce(w, pipe, p, now) ==
    LET w1 == IF w.lastWriteStart = 0 THEN [w EXCEPT !.lastWriteStart = now] ELSE w
        i == IndexNL(p)
    IN IF i > 0
       THEN BufWrite(Flush(BufWrite(w1, SubSeq(p, 1, i), now), pipe),
                     SubSeq(p, i + 1, Len(p)), now)
       ELSE BufWrite(w1, p, now)

\* The writer is created by one of the two copies of the code.
NewTimestampWriter(build) ==
    /\ twWrite = "none"
    /\ twWrite' = build
    /\ UNCHANGED <<tw, twBytes, twN, twLen, twFlushed>>

\* w.Write(p): both copies return len(p).
StreamWrite(p) ==
    /\ twWrite # "none"
    /\ ~twFlushed
    /\ Len(twBytes) + Len(p) <= MaxStream
    /\ tw' = IF twWrite = "recursive" THEN WriteBytes(tw, "stderr", p, 1)
             ELSE WriteBytesOnce(tw, "stderr", p, 1)
    /\ twBytes' = twBytes \o p
    /\ twN' = Len(p)
    /\ twLen' = Len(p)
    /\ UNCHANGED <<twWrite, twFlushed>>

\* w.String(), after the process has exited: the writer is flushed.
StreamString ==
    /\ twWrite # "none"
    /\ ~twFlushed
    /\ tw' = Flush(tw, "stderr")
    /\ twFlushed' = TRUE
    /\ UNCHANGED <<twWrite, twBytes, twN, twLen>>

InitStream ==
    /\ tw = NewWriter
    /\ twWrite = "none"
    /\ twBytes = <<>>
    /\ twN = 0
    /\ twLen = 0
    /\ twFlushed = FALSE

NextStream ==
    \/ \E build \in {"recursive", "once"} : NewTimestampWriter(build)
    \/ \E p \in StreamChunks : StreamWrite(p)
    \/ StreamString

(***************************************************************************)
(* Helper tools installed from a release archive                           *)
(***************************************************************************)
\* The two tools of one archive (ffmpegBinConfigs with isArchive); a tool's
\* name is also the name of its binary.
ArchiveTools == {"ffmpeg", "ffprobe"}

OtherTool(t) == IF t = "ffmpeg" THEN "ffprobe" ELSE "ffmpeg"

\* The other tool's installer has the archive open for writing or has yet to
\* extract from it.
Busy(t) == apc[t] \in {"write", "extract"}

\* The writers whose file descriptor still is the file at the archive's path.
Linked == arch.writers \ arch.orphans

\* The release behind the download URL (opts.DownloadURL or the configured
\* one) is an archive with members c.
Publish(c) ==
    /\ served = <<>>
    /\ served' = <<c>>
    /\ UNCHANGED <<apc, arch, extracted, xerr, ares, acell, clobbered,
                   denoResolveCache, cacheDirExists, deleted>>

\* InstallFFmpeg / InstallFFprobe up to the download: the tool's own install
\* lock is taken, its cell is empty, the binary is not found, downloading is
\* allowed and createCacheDir has made the cache directory.
StartInstall(t) ==
    /\ served # <<>>
    /\ apc[t] = "idle"
    /\ apc' = [apc EXCEPT ![t] = "open"]
    /\ cacheDirExists' = TRUE
    /\ UNCHANGED <<served, arch, extracted, xerr, ares, acell, clobbered,
                   denoResolveCache, deleted>>

\* downloadFile: os.OpenFile(dest, O_CREATE|O_TRUNC|O_WRONLY); dest is the
\* file name the server gives, the same for both tools.
\* Without the cache directory the open fails and the download returns an
\* error.
OpenArchive(t) ==
    /\ apc[t] = "open"
    /\ IF cacheDirExists
       THEN /\ apc' = [apc EXCEPT ![t] = "write"]
            /\ arch' = [exists |-> TRUE, valid |-> FALSE,
                        writers |-> arch.writers \cup {t},
                        orphans |-> arch.orphans,
                        dirty |-> arch.dirty \cup Linked]
            /\ clobbered' = (clobbered \/ (arch.exists /\ Busy(OtherTool(t))))
            /\ UNCHANGED xerr
       ELSE /\ apc' = [apc EXCEPT ![t] = "return"]
            /\ xerr' = [xerr EXCEPT ![t] = TRUE]
            /\ UNCHANGED <<arch, clobbered>>
    /\ UNCHANGED <<served, extracted, ares, acell, denoResolveCache, cacheDirExists,
                   deleted>>

\* downloadFile: f.ReadFrom(resp.Body) and f.Close().  The file is whole
\* when its writer was not truncated under it, or when the writer that
\* truncated it has finished; otherwise it is whole or not.
FinishWrite(t) ==
    /\ apc[t] = "write"
    /\ apc' = [apc EXCEPT ![t] = "extract"]
    /\ \E v \in (IF t \in arch.dirty /\ Linked \ {t} # {} THEN BOOLEAN ELSE {TRUE}) :
          arch' = [exists |-> arch.exists,
                   valid |-> IF t \in arch.orphans THEN arch.valid ELSE v,
                   writers |-> arch.writers \ {t},
                   orphans |-> arch.orphans \ {t},
                   dirty |-> arch.dirty \ {t}]
    /\ UNCHANGED <<served, extracted, xerr, ares, acell, clobbered, denoResolveCache,
                   cacheDirExists, deleted>>

\* extractFilesFromArchive(dest, cacheDir, {ffmpeg, ffprobe}): the archive is
\* opened by its path and every member whose name matches is written to the
\* cache directory; a member that is not there is not looked for again.
ExtractFilesFromArchive(t) ==
    /\ apc[t] = "extract"
    /\ apc' = [apc EXCEPT ![t] = "remove"]
    /\ LET ok == arch.exists /\ arch.valid
           new == IF ok THEN served[1] \cap ArchiveTools ELSE {}
       IN /\ extracted' = extracted \cup new
          /\ deleted' = deleted \ new
          /\ xerr' = [xerr EXCEPT ![t] = ~ok]
    /\ UNCHANGED <<served, arch, ares, acell, clobbered, denoResolveCache,
                   cacheDirExists>>

\* defer os.Remove(dest) of downloadAndExtractFilesFromArchive.
RemoveArchive(t) ==
    /\ apc[t] = "remove"
    /\ apc' = [apc EXCEPT ![t] = "return"]
    /\ arch' = [arch EXCEPT !.exists = FALSE, !.valid = FALSE,
                            !.orphans = arch.writers]
    /\ clobbered' = (clobbered \/ (arch.exists /\ Busy(OtherTool(t))))
    /\ UNCHANGED <<served, extracted, xerr, ares, acell, denoResolveCache,
                   cacheDirExists, deleted>>

\* downloadAndInstallFFmpeg / FFprobe return, and InstallFFmpeg / FFprobe
\* store the ResolvedInstall{Executable: cacheDir/binary} on success.
ReturnInstall(t) ==
    /\ apc[t] = "return"
    /\ apc' = [apc EXCEPT ![t] = "done"]
    /\ ares' = [ares EXCEPT ![t] = IF xerr[t] THEN "err" ELSE "ok"]
    /\ acell' = [acell EXCEPT ![t] = IF xerr[t] THEN @ ELSE t]
    /\ UNCHANGED <<served, arch, extracted, xerr, clobbered, denoResolveCache,
                   cacheDirExists, deleted>>

\* InstallDeno, under denoInstallLock: a cell that is set is returned as it
\* is; otherwise deno is resolved in the cache directory or downloaded from
\* its own archive and extracted there, and the cell is stored.
InstallDeno ==
    /\ denoResolveCache = ""
    /\ denoResolveCache' = "deno"
    /\ cacheDirExists' = TRUE
    /\ extracted' = extracted \cup {"deno"}
    /\ deleted' = deleted \ {"deno"}
    /\ UNCHANGED <<apc, served, arch, xerr, ares, acell, clobbered>>

\* RemoveInstallCache: os.RemoveAll(cacheDir), then the cells of yt-dlp,
\* ffmpeg, ffprobe and bun are set to nil.
RemoveInstallCache ==
    /\ cacheDirExists
    /\ cacheDirExists' = FALSE
    /\ extracted' = {}
    /\ deleted' = deleted \cup extracted
    /\ arch' = [arch EXCEPT !.exists = FALSE, !.valid = FALSE,
                            !.orphans = arch.writers]
    /\ acell' = [t \in ArchiveTools |-> ""]
    /\ UNCHANGED <<apc, served, xerr, ares, clobbered, denoResolveCache>>

InitArchive ==
    /\ apc = [t \in ArchiveTools |-> "idle"]
    /\ served = <<>>
    /\ arch = [exists |-> FALSE, valid |-> FALSE, writers |-> {}, orphans |-> {},
               dirty |-> {}]
    /\ extracted = {}
    /\ xerr = [t \in ArchiveTools |-> FALSE]
    /\ ares = [t \in ArchiveTools |-> "none"]
    /\ acell = [t \in ArchiveTools |-> ""]
    /\ clobbered = FALSE
    /\ denoResolveCache = ""
    /\ cacheDirExists = FALSE
    /\ deleted = {}

NextArchive ==
    \/ \E c \in SUBSET ArchiveTools : Publish(c)
    \/ \E t \in ArchiveTools :
          \/ StartInstall(t)
          \/ OpenArchive(t)
          \/ FinishWrite(t)
          \/ ExtractFilesFromArchive(t)
          \/ RemoveArchive(t)
          \/ ReturnInstall(t)
    \/ InstallDeno
    \/ RemoveInstallCache

Init ==
    /\ InitFlags /\ InitInstall /\ InitCmd /\ InitLog /\ InitProgress /\ InitRun
    /\ InitTemplate /\ InitLock /\ InitStream /\ InitArchive

SpecFlags ==
    Init /\ [][NextFlags /\ UNCHANGED <<installVars, cmdVars, logVars, progVars, runVars, tmplVars, lockVars, streamVars, archVars>>]_vars

Spec ==
    Init /\ [][NextInstall /\ UNCHANGED <<flagVars, cmdVars, logVars, progVars, runVars, tmplVars, lockVars, streamVars, archVars>>]_vars

SpecCmd == Init /\ [][NextCmd /\ UNCHANGED <<flagVars, logVars, progVars, runVars, tmplVars, lockVars, streamVars, archVars>>]_vars

SpecLog ==
    Init /\ [][NextLog /\ UNCHANGED <<flagVars, installVars, cmdVars, progVars, runVars, tmplVars, lockVars, streamVars, archVars>>]_vars

SpecProgress ==
    Init /\ [][NextProgress
                 /\ UNCHANGED <<flagVars, installVars, cmdVars, logVars, runVars, tmplVars, lockVars, streamVars, archVars>>]_vars

SpecTemplate ==
    Init /\ [][NextTemplate /\ UNCHANGED <<flagVars, installVars, cmdVars, logVars,
                                           progVars, runVars, lockVars, streamVars, archVars>>]_vars

SpecLock ==
    Init /\ [][NextLock /\ UNCHANGED <<flagVars, installVars, cmdVars, logVars,
                                       progVars, runVars, tmplVars, streamVars,
                                       archVars>>]_vars

SpecStream ==
    Init /\ [][NextStream /\ UNCHANGED <<flagVars, installVars, cmdVars, logVars,
                                         progVars, runVars, tmplVars, lockVars,
                                         archVars>>]_vars

SpecArchive ==
    Init /\ [][NextArchive /\ UNCHANGED <<flagVars, installVars, cmdVars, logVars,
                                          progVars, runVars, tmplVars, lockVars,
                                          streamVars>>]_vars

SpecRun ==
    Init /\ [][NextRun /\ UNCHANGED <<flagVars, installVars, logVars, progVars, tmplVars, lockVars, streamVars, archVars>>]_vars

\* C4: removeFlagByID(id) removes every flag whose ID is id, keeps the other
\* flags in their original relative order, and never fails.
C4_RemoveRemovesAll ==
    lastFlagOp.op = "remove" =>
        /\ ~panicked
        /\ flags = FilterSeq(flagsBefore, lastFlagOp.id)

\* C5: after any sequence of builder calls the flag list holds at most one
\* flag for each non-repeatable ID.
C5_NoDuplicates == Duplicates(flags) = <<>>

(***************************************************************************)
(* Installer claims                                                        *)
(***************************************************************************)
\* C1: when several callers call Install concurrently with an empty cache
\* cell, the download happens at most once: once a call that downloaded has
\* published its result, no other call requests the download again (as long
\* as RemoveInstallCache has not been called).
C1_DownloadAtMostOnce == (clears = 0) => ~redundantDownload

\* C2: between two clears the cache cell is assigned at most once: a
\* non-empty cell is only ever emptied, never overwritten with another
\* ResolvedInstall, so every successful Install returns the same value.
C2_CellAssignedOnce ==
    [][ytdlpResolveCache # NoInstall =>
          ytdlpResolveCache' \in {ytdlpResolveCache, NoInstall}]_vars

\* The manifest, signed by the embedded key, names hash h as the checksum of
\* the release asset: its first well-formed line for the asset carries h.
Vouched(sums, sig, art) ==
    /\ sums.kind = "sums" /\ sig.kind = "sig" /\ art.kind = "bin"
    /\ sig.valid
    /\ \E i \in 1..Len(sums.lines) :
          /\ Len(sums.lines[i]) = 2
          /\ sums.lines[i][2] = BinSrc
          /\ sums.lines[i][1] = art.hash
          /\ \A j \in 1..(i - 1) :
                Len(sums.lines[j]) = 2 => sums.lines[j][2] # BinSrc

VerifyErrors == {"open", "signature", "mismatch", "notfound"}

\* C3: with checksums enabled, a call whose downloaded artifact fails
\* verification returns an error without renaming the temporary artifact and
\* without writing the cache cell; the rename is only reached, and only
\* performed, for an artifact the signed manifest vouches for.
C3_VerifyBeforeRename ==
    \A g \in Procs :
        /\ ret[g].err \in VerifyErrors =>
              ret[g].kind = "err" /\ ~renamed[g] /\ ~stored[g]
        /\ (pc[g] = "rename" /\ ~opts[g].DisableChecksum
                /\ cacheDir[TmpName] # NoFile) =>
              Vouched(cacheDir[SumsName], cacheDir[SigName], cacheDir[TmpName])
        /\ (pc[g] = "reresolve" /\ ~opts[g].DisableChecksum
                /\ cacheDir[BinDest[1]] # NoFile) =>
              Vouched(cacheDir[SumsName], cacheDir[SigName], cacheDir[BinDest[1]])

\* A call has returned a verification error (a hash that differs from the
\* manifest's) while another has renamed a verified artifact.
C3_Witness ==
    \E g, h \in Procs :
        /\ pc[g] = "done" /\ ret[g].err = "mismatch" /\ downloaded[g]
        /\ renamed[h] /\ ~opts[h].DisableChecksum

(***************************************************************************)
(* Command orchestrator claims                                             *)
(***************************************************************************)
\* C6: building or running an invocation does not mutate the Command: its
\* flag set, environment, executable and working directory are the same
\* after BuildCommand or Run as before.
C6_BuildDoesNotMutate ==
    lastOp.op \in {"BuildCommand", "Run"} => Settings(lastOp.by) = before

\* What can be observed through a Command: its settings and tunables, and the
\* start/finish tracking its progress updates are stamped from.
View(c) ==
    [settings |-> Settings(c),
     inherit |-> disableEnvVarInherit[c],
     wait |-> cancelMaxWait[c],
     tracking |-> IF progress[c] = 0 THEN NewProgressHandler
                  ELSE handlers[progress[c]]]

\* C7: after Clone the original and the clone share no mutable state: no
\* operation on one Command changes what is observable through the other.
C7_CloneSharesNothing ==
    [][\A c \in CmdIds :
          (exists[c] /\ lastOp'.by \in CmdIds /\ lastOp'.by # c /\ cmdOps' # cmdOps)
              => View(c)' = View(c)]_vars

\* The classification C8 describes, for an underlying error of kind under.
Classified(under, exitCode, stderr) ==
    IF under = "none" THEN "nil"
    ELSE IF under \in {"dot", "notfound"} THEN "ErrMisconfig"
    ELSE IF exitCode # 0 THEN "ErrExitCode"
    ELSE IF Contains(stderr, NoSuchOption) THEN "ErrParsing"
    ELSE "ErrUnknown"

\* C8: the outcome of an invocation is classified in the priority order nil,
\* executable not found (misconfig), non-zero exit code, 'no such option'
\* (parsing), unknown.
C8_ClassificationOrder ==
    lastOp.op = "Run" =>
        lastRun.class = Classified(lastRun.under, lastRun.ExitCode, lastRun.Stderr)

\* C9: when no executable is set and resolution fails, the handle BuildCommand
\* returns carries the resolution error, and Run returns that error without
\* starting a process.
C9_ResolutionErrorCarried ==
    (lastOp.op = "Run" /\ lastRun.resolveErr) =>
        /\ lastCmd.Err = "resolve"
        /\ lastRun.under = "resolve"
        /\ ~lastRun.spawned

(***************************************************************************)
(* Stream writer claims                                                    *)
(***************************************************************************)
\* C10: in the merged OutputLogs, entries captured from the same stream keep
\* the order in which that stream emitted them, also when several entries
\* carry the same timestamp.
C10_SameStreamOrderKept ==
    receiver = "stdout" => \A i, j \in 1..Len(merged) :
        (i < j /\ merged[i].Pipe = merged[j].Pipe) => merged[i].n < merged[j].n

\* The entry a flush of writer pipe would record for its buffered content.
Trailing(pipe) ==
    [Timestamp |-> writers[pipe].lastWriteStart,
     Line |-> TrimRight(writers[pipe].buf),
     Pipe |-> pipe,
     n |-> Len(writers[pipe].results) + 1]

InSeqOf(sq, x) == \E i \in 1..Len(sq) : sq[i] = x

\* Everything written to the writers: the completed lines and the
\* unterminated content still buffered.
Written ==
    UNION { {writers[p].results[k] : k \in 1..Len(writers[p].results)}
              \cup (IF writers[p].buf = <<>> THEN {} ELSE {Trailing(p)}) :
            p \in Pipes }

C12_TimestampIsFirstByte ==
    \A p \in Pipes : \A k \in 1..Len(writers[p].results) :
        writers[p].results[k].Timestamp = writers[p].firsts[k]

(***************************************************************************)
(* Progress decoder claims                                                 *)
(***************************************************************************)
\* C13: for each download key the start time is stamped when the key is first
\* seen and is the same on every later update; the finish time is stamped at
\* the first terminal update and never changes; every terminal update
\* delivered has a non-zero Finished that is not earlier than Started.
C13_StartFinishStamps ==
    pcalled =>
        /\ pupdate.Started = pfirst[pkey]
        /\ pupdate.Started # 0
        /\ IsCompletedType(pupdate.Status) =>
              /\ pupdate.Finished = pfirstFin[pkey]
              /\ pupdate.Finished # 0
              /\ pupdate.Finished >= pupdate.Started
        /\ \A k \in ProgressKeys :
              /\ phandler.started[k] = pfirst[k]
              /\ phandler.finished[k] = pfirstFin[k]

\* A second terminal update of a key has been delivered, later than its first
\* one, which itself came later than the key's first update.
C13_Witness ==
    /\ pcalled /\ IsCompletedType(pupdate.Status)
    /\ pbefore.finished[pkey] # 0
    /\ pupdate.Started < pupdate.Finished
    /\ pupdate.Finished < pclock

\* C14: an update delivered to the callback has a zero Finished whenever its
\* status is not error or finished.
C14_InProgressHasZeroFinished ==
    (pcalled /\ ~IsCompletedType(pupdate.Status)) => pupdate.Finished = 0

\* C15: a line whose number of delimited fields is not 11 is ignored: the
\* callback is not invoked and the start/finish tracking is unchanged.
C15_WrongFieldCountIgnored ==
    (parses > 0 /\ pfields # ProgressFieldCount) =>
        ~pcalled /\ phandler = pbefore

(***************************************************************************)
(* Invocation claims                                                       *)
(***************************************************************************)
\* C16: when the context is cancelled while the subprocess runs, the
\* subprocess is terminated and Run returns at the latest once the grace
\* period configured on the Command has elapsed since the cancellation, even
\* if a child keeps the output pipes open.
C16_ReturnsWithinGrace ==
    rcancelAt # 0 =>
        /\ rproc = "exited"
        /\ rstate = "running" => rtime - rcancelAt <= rWaitDelay

\* The positions of x in the sequence sq.
Positions(sq, x) == {i \in 1..Len(sq) : sq[i] = x}

\* C17: when PATH is set with SetEnvVar and the parent process has a PATH, the
\* PATH of the invocation holds the entries of both, an inherited entry that
\* is also an explicit one is not added a second time, and every explicit
\* entry comes before every entry that is only inherited.
C17_PathMergedExplicitFirst ==
    LET c == lastOp.by
        explicit == EnvGet(env[c], "PATH")
        inherited == EnvGet(ParentEnv, "PATH")
        path == EnvGet(lastCmd.Env, "PATH")
    IN (lastOp.op \in {"BuildCommand", "Run"} /\ explicit # <<>> /\ inherited # <<>>) =>
          /\ \A i \in 1..Len(explicit) : Positions(path, explicit[i]) # {}
          /\ \A i \in 1..Len(inherited) :
                Cardinality(Positions(path, inherited[i])) = 1
          /\ \A i \in 1..Len(explicit), j \in 1..Len(inherited) :
                ~InSeq(inherited[j], explicit) =>
                    \A pe \in Positions(path, explicit[i]),
                       pi \in Positions(path, inherited[j]) : pe < pi

(***************************************************************************)
(* Install option claims                                                   *)
(***************************************************************************)
\* C18: AllowVersionMismatch is ignored when DisableDownload is set: a call
\* with both options that resolves an executable of another version fails
\* with the version-mismatch error and neither stores nor returns it.
C18_MismatchIgnoredWithoutDownload ==
    [][\A g \in Procs :
          LET r == ResolveExecutable(cacheDir, sysBin, FALSE, opts[g].DisableSystem)
              v == YtdlpGetVersion(r.file)
          IN (/\ pc[g] = "resolve" /\ pc'[g] # "resolve"
              /\ opts[g].DisableDownload /\ opts[g].AllowVersionMismatch
              /\ r.found /\ v \notin {"", Version})
             => /\ ret'[g].kind = "err"
                /\ ret'[g].err = "yt-dlp version mismatch"
                /\ ytdlpResolveCache' = ytdlpResolveCache]_vars

DownloadPath == {"download", "checksums", "verify", "rename", "reresolve"}

\* C19: a call with DisableDownload (and without AllowVersionMismatch) never
\* requests a download; when nothing is resolved it fails with the 'not
\* found, and downloading is disabled' error, when the resolved version is
\* not Version it fails with the version-mismatch error, and in both cases
\* it leaves the cache cell as it was.
C19_DisableDownloadNeverDownloads ==
    [][\A g \in Procs :
          LET r == ResolveExecutable(cacheDir, sysBin, FALSE, opts[g].DisableSystem)
              v == YtdlpGetVersion(r.file)
          IN (opts'[g].DisableDownload /\ ~opts'[g].AllowVersionMismatch) =>
                /\ pc'[g] \notin DownloadPath
                /\ ~downloaded'[g]
                /\ (pc[g] = "resolve" /\ pc'[g] # "resolve" /\ ~r.found) =>
                      /\ ret'[g].kind = "err"
                      /\ ret'[g].err =
                            "yt-dlp executable not found, and downloading is disabled"
                      /\ ytdlpResolveCache' = ytdlpResolveCache
                /\ (pc[g] = "resolve" /\ pc'[g] # "resolve" /\ r.found
                        /\ v \notin {"", Version}) =>
                      /\ ret'[g].kind = "err"
                      /\ ret'[g].err = "yt-dlp version mismatch"
                      /\ ytdlpResolveCache' = ytdlpResolveCache]_vars

\* A call with DisableDownload has failed with the version-mismatch error
\* while the cache cell is empty and nothing was downloaded.
C19_Witness ==
    \E g \in Procs :
        /\ pc[g] = "done" /\ opts[g].DisableDownload /\ ~opts[g].AllowVersionMismatch
        /\ ret[g].err = "yt-dlp version mismatch"
        /\ ytdlpResolveCache = NoInstall
        /\ ~downloaded[g]

\* C20: BuildCommand and Run only look the executable up: no BuildCommand or
\* Run step issues a download, creates or changes a file of the cache
\* directory, or writes a resolve-cache cell.
C20_InvocationNeverInstalls ==
    [][(lastOp'.op \in {"BuildCommand", "Run"} /\ cmdOps' # cmdOps) =>
          /\ cacheDir' = cacheDir
          /\ ytdlpResolveCache' = ytdlpResolveCache
          /\ bunResolveCache' = bunResolveCache
          /\ downloaded' = downloaded
          /\ pc' = pc]_vars

\* A Run with no executable set has looked for yt-dlp, in the cache directory
\* and on the PATH, found one on the PATH and started it, or found none:
\* the cache directory and the cell are still empty.
C20_Witness ==
    /\ lastOp.op = "Run" /\ executable[lastOp.by] = ""
    /\ lastRun.resolveErr \/ lastRun.spawned
    /\ ytdlpResolveCache = NoInstall
    /\ cacheDir = NoDir

(***************************************************************************)
(* Clone and argument vector claims                                        *)
(***************************************************************************)
\* What BuildCommand yields for Command c: executable, argument vector,
\* environment, working directory and wait delay.
Built(c, args) ==
    LET cmd == BuildCmd(c, args).cmd
    IN [Path |-> cmd.Path, Args |-> cmd.Args, Env |-> cmd.Env, Dir |-> cmd.Dir,
        WaitDelay |-> cmd.WaitDelay]

\* C21: at the moment of cloning, BuildCommand on the clone yields the same
\* executable, argument vector, environment, working directory and wait delay
\* as BuildCommand on the original with the same positional arguments.
C21_CloneBuildsTheSame ==
    lastOp.op = "Clone" =>
        \A d \in CmdIds \ {lastOp.by}, args \in PositionalArgs :
            exists[d] => Built(d, args) = Built(lastOp.by, args)

\* The tokens by which a flag with the given ID shows in an argument vector.
FlagTokens(id) == {f.Flag : f \in {b \in BuilderFlags : b.ID = id}}

\* C22: the argument vector is the raw tokens of the active flags in
\* insertion order followed by the positional arguments; a flag that was
\* unset contributes no token.
C22_ArgvFlagsThenPositionals ==
    \A args \in {<<>>, <<"https://example.com/v">>} :
        LET argv == CmdArgs(flags, args)
        IN /\ SubSeq(argv, Len(argv) - Len(args) + 1, Len(argv)) = args
           /\ (lastFlagOp.op = "remove" /\ ~panicked) =>
                 /\ argv = CmdArgs(FilterSeq(flagsBefore, lastFlagOp.id), args)
                 /\ \A k \in 1..Len(argv) : argv[k] \notin FlagTokens(lastFlagOp.id)

(***************************************************************************)
(* Template encoder claims                                                 *)
(***************************************************************************)
\* The element C23 describes for field i, "" when the field is left out.
ClaimedElement(i, f) ==
    IF f.Kind \notin {"string", "bool", "int", "float64"} THEN ""
    ELSE IF f.Tag # "" THEN FieldName(i) \o "=" \o Reference(f)
    ELSE IF f.Zero THEN ""
    ELSE FieldName(i) \o "=" \o Printed(f)

RECURSIVE ClaimedJoin(_, _)
ClaimedJoin(fs, i) ==
    IF i > Len(fs) THEN ""
    ELSE LET el == ClaimedElement(i, fs[i])
             rest == ClaimedJoin(fs, i + 1)
         IN IF el = "" THEN rest
            ELSE IF rest = "" THEN el
            ELSE el \o templateDelimiter \o rest

\* C23: MarshalTemplate emits one element per field, in field order, joined
\* by '|': a tagged field is a substitution reference with its type's
\* fallback, an untagged field its literal value, left out when zero; fields
\* of unsupported kinds are skipped; a non-struct input is an error, never a
\* panic.
C23_MarshalTemplate ==
    /\ tin.kind = "struct" =>
          tout = [kind |-> "ok", out |-> ClaimedJoin(tin.fields, 1)]
    /\ tin.kind \in {"string", "ptr", "nil"} => tout.kind = "err"

(***************************************************************************)
(* Locking claims                                                          *)
(***************************************************************************)
\* C24: every builder mutation of the Command, and every read of its mutable
\* fields while it is validated, built or run, is made under the Command's
\* read-write lock: a write holding Lock, a read holding Lock or RLock.
C24_EveryAccessUnderLock ==
    /\ lacc.t = "write" => lacc.holds = "Lock"
    /\ lacc.t = "read" => lacc.holds \in {"Lock", "RLock"}

(***************************************************************************)
(* Stream writer claims                                                    *)
(***************************************************************************)
\* The newline-delimited segments of a byte stream, each with its newline; a
\* last segment without newline is the unterminated rest.
RECURSIVE Segments(_)
Segments(bs) ==
    LET i == IndexNL(bs)
    IN IF bs = <<>> THEN <<>>
       ELSE IF i = 0 THEN <<bs>>
       ELSE <<SubSeq(bs, 1, i)>> \o Segments(SubSeq(bs, i + 1, Len(bs)))

Terminated(seg) == seg[Len(seg)] = NL

\* C25: the lines a stream writer records depend only on the concatenated
\* bytes written: they are the newline-delimited segments of the stream,
\* trailing whitespace trimmed, in order, whatever the chunking and however
\* many newlines one Write holds; the unterminated rest becomes one final
\* entry when the writer is flushed; every Write reports len(p) bytes.
C25_LinesIndependentOfChunking ==
    LET segs == Segments(twBytes)
        expect == IF twFlushed THEN segs ELSE SelectSeq(segs, Terminated)
    IN /\ Len(tw.results) = Len(expect)
       /\ \A k \in 1..Len(tw.results) :
             k <= Len(expect) => tw.results[k].Line = TrimRight(expect[k])
       /\ twN = twLen

(***************************************************************************)
(* Archive installer claims                                                *)
(***************************************************************************)
\* C26: when InstallFFmpeg and InstallFFprobe run concurrently and fetch the
\* same archive, neither truncates or removes the archive file while the
\* other is still writing it or has yet to extract from it, and each call
\* returns what it returns when run alone (a download that succeeds: no error).
C26_ConcurrentInstallsDoNotInterfere ==
    /\ ~clobbered
    /\ \A t \in ArchiveTools : ares[t] # "err"

\* C28: when a helper-tool installer that ran on its own, with no cache
\* removal, returns success after a download and has stored the result in
\* its cell, the Executable it reports is in the cache directory; an archive
\* without the requested member makes the install fail.
C28_ReportedExecutableExists ==
    \A t \in ArchiveTools :
        (ares[t] = "ok" /\ apc[OtherTool(t)] = "idle" /\ deleted = {}) =>
            /\ acell[t] \in extracted
            /\ t \in served[1]

\* C27: once RemoveInstallCache has returned, no tool's cache cell holds a
\* ResolvedInstall for an executable that RemoveInstallCache deleted, also
\* when an Install of that tool was in progress meanwhile.
C27_NoCellForDeletedExecutable ==
    /\ \A t \in ArchiveTools : acell[t] # "" => acell[t] \notin deleted
    /\ denoResolveCache # "" => denoResolveCache \notin deleted

(***************************************************************************)
(* Progress callback claims                                                *)
(***************************************************************************)
\* C29: ProgressFunc followed by UnsetProgressFunc is a round trip: the
\* Command then builds the flag tokens it built before ProgressFunc, the
\* progress flags ProgressFunc switched on being no longer active.
C29_UnsetProgressFuncRoundTrip ==
    (lastOp.op = "UnsetProgressFunc" /\ lastOp.undo # <<>>) =>
        /\ ToFlags(flagConfig[lastOp.by]) = lastOp.undo[1]
        /\ \A args \in PositionalArgs :
              LET argv == BuildCmd(lastOp.by, args).cmd.Args
              IN \A k \in 1..Len(argv) : argv[k] \notin {"--progress", "--newline"}

\* C30: for every update delivered to the callback, whenever the callback
\* looks at it, Percent() is between 0 and 100 and ETA() is not negative;
\* Percent() is 100 for a terminal status and otherwise 0 when the total is
\* unknown; ETA() is 0 whenever Percent() is 0 or 100.
C30_PercentAndETAInRange ==
    pcalled =>
        \A now \in pclock..MaxProgressClock :
            LET perc == Percent(pupdate)
                eta == ETA(pupdate, now)
            IN /\ 0 <= perc.num /\ perc.num <= 100 * perc.den
               /\ eta >= 0
               /\ IsCompletedType(pupdate.Status) => perc.num = 100 * perc.den
               /\ (~IsCompletedType(pupdate.Status) /\ pupdate.TotalBytes = 0)
                     => perc.num = 0
               /\ (perc.num = 0 \/ perc.num = 100 * perc.den) => eta = 0

====
